---- MODULE Spec2Model ----
(***************************************************************************)
(* Model of the MCSR Elo Viewer browser extension (gettingtwitch_ids).     *)
(*                                                                         *)
(* The background script exists in two variants, src/background.js         *)
(* ("root") and src/mcsr_app_viewer/background.js ("viewer").  Both are    *)
(* modelled by one state machine; the variable `variant` is fixed by Init  *)
(* and selects the code that differs between them.  (Specification Spec;   *)
(* FairSpec adds that every awaited call of a refresh settles.)            *)
(*                                                                         *)
(* The content script exists in four variants: src/content.js ("root"),    *)
(* src/mcsr_app_viewer/content.js ("viewer"), src/unnamed/part_002         *)
(* ("hideNA") and src/unnamed/part_001 ("spa"); `contentScript` selects    *)
(* the code that differs.  PageSpec is a page whose chat container stays   *)
(* in place, run with each of the four; SpaSpec is a page that replaces    *)
(* its container, run with the SPA script.  The answers a content script   *)
(* receives are those handleEloRequest of its background script can give.  *)
(*                                                                         *)
(* Functions are also run on their own: ParseSpec calls parseCsvData on    *)
(* files built from a few headers and rows, RankSpec calls getRankInfo on  *)
(* a range of values, EndToEndSpec takes a file through parseCsvData, the  *)
(* commit of the refresh, handleEloRequest and the getElo callback.        *)
(* SpaFairSpec and SpaDeliverySpec add the browser's scheduling to         *)
(* SpaSpec: pending timers fire, sent messages are called back.            *)
(*                                                                         *)
(* JavaScript values:                                                      *)
(*   - a string is a sequence of one-character strings, "" is << >>;       *)
(*   - a value that may be null/undefined is an option: None == << >> is   *)
(*     null, Some(x) == <<x>> is the value x;                               *)
(*   - an object used as a map is a function whose DOMAIN is its key set.  *)
(*                                                                         *)
(* The script is single threaded and run-to-completion: every action is    *)
(* the code that runs from one event (or one completion of an awaited      *)
(* browser API call) up to the next await of a browser API call.           *)
(***************************************************************************)
EXTENDS Integers, Sequences, FiniteSets, Bags, TLC

\* -------------------------------------------------------------------------
\* Bounds
\* -------------------------------------------------------------------------

\* Largest number of suspended handler invocations (async calls in flight).
MaxTasks == 2

\* -------------------------------------------------------------------------
\* JavaScript values and string primitives
\* -------------------------------------------------------------------------

None == << >>

Some(x) == <<x>>

IsNone(o) == Len(o) = 0

Val(o) == o[1]

UpperCaseLetters ==
    << "A", "B", "C", "D", "E", "F", "G", "H", "I", "J", "K", "L", "M",
       "N", "O", "P", "Q", "R", "S", "T", "U", "V", "W", "X", "Y", "Z" >>

LowerCaseLetters ==
    << "a", "b", "c", "d", "e", "f", "g", "h", "i", "j", "k", "l", "m",
       "n", "o", "p", "q", "r", "s", "t", "u", "v", "w", "x", "y", "z" >>

Digits == << "0", "1", "2", "3", "4", "5", "6", "7", "8", "9" >>

WhiteSpace == { " ", "\t", "\n", "\r" }

toLowerCaseChar(c) ==
    IF \E i \in 1..26 : UpperCaseLetters[i] = c
    THEN LowerCaseLetters[CHOOSE i \in 1..26 : UpperCaseLetters[i] = c]
    ELSE c

\* String.prototype.toLowerCase
toLowerCase(s) == [i \in 1..Len(s) |-> toLowerCaseChar(s[i])]

\* String.prototype.trim
trim(s) ==
    LET keep == { i \in 1..Len(s) : s[i] \notin WhiteSpace }
    IN IF keep = {} THEN << >>
       ELSE LET lo == CHOOSE i \in keep : \A j \in keep : i <= j
                hi == CHOOSE i \in keep : \A j \in keep : j <= i
            IN SubSeq(s, lo, hi)

\* String.prototype.split(sep) for a one-character separator: never empty,
\* "".split(",") is [""].
RECURSIVE split(_, _)
split(s, sep) ==
    LET at == { i \in 1..Len(s) : s[i] = sep }
    IN IF at = {} THEN << s >>
       ELSE LET k == CHOOSE i \in at : \A j \in at : i <= j
            IN << SubSeq(s, 1, k - 1) >> \o split(SubSeq(s, k + 1, Len(s)), sep)

\* Array.prototype.map with v => v.trim() / h => h.toLowerCase()
mapTrim(arr) == [i \in 1..Len(arr) |-> trim(arr[i])]

mapToLowerCase(arr) == [i \in 1..Len(arr) |-> toLowerCase(arr[i])]

\* Array.prototype.indexOf: zero-based position of the first match, or -1.
indexOf(arr, x) ==
    LET at == { i \in 1..Len(arr) : arr[i] = x }
    IN IF at = {} THEN -1
       ELSE (CHOOSE i \in at : \A j \in at : i <= j) - 1

\* arr[i] with a zero-based index.
At(arr, i) == arr[i + 1]

DigitValue(c) == (CHOOSE i \in 1..10 : Digits[i] = c) - 1

IsDigit(c) == \E i \in 1..10 : Digits[i] = c

RECURSIVE DigitsValue(_, _)
DigitsValue(ds, acc) ==
    IF ds = << >> THEN acc
    ELSE DigitsValue(Tail(ds), 10 * acc + DigitValue(Head(ds)))

\* parseInt(str, 10): skips leading white space, takes an optional sign and
\* the longest run of decimal digits; None stands for NaN.
parseInt(str) ==
    LET t == trim(str)
        neg == Len(t) > 0 /\ t[1] = "-"
        body == IF Len(t) > 0 /\ t[1] \in { "-", "+" } THEN Tail(t) ELSE t
        stop == { i \in 1..Len(body) : ~IsDigit(body[i]) }
        n == IF stop = {} THEN Len(body)
             ELSE (CHOOSE i \in stop : \A j \in stop : i <= j) - 1
        v == DigitsValue(SubSeq(body, 1, n), 0)
    IN IF n = 0 THEN None ELSE Some(IF neg THEN 0 - v ELSE v)

\* An empty object {} / an object's key set / property assignment.
EmptyMap == << >>

Keys(m) == DOMAIN m

Put(m, k, v) == [x \in (DOMAIN m) \cup {k} |-> IF x = k THEN v ELSE m[x]]

\* -------------------------------------------------------------------------
\* parseCsvData
\* -------------------------------------------------------------------------

\* Column names looked up in the header, per variant.
HeaderNames(v) ==
    IF v = "viewer"
    THEN [ twitch_name |-> << "t","w","i","t","c","h","_","n","a","m","e" >>,
           uuid |-> << "u","u","i","d" >>,
           nickname |-> << "n","i","c","k","n","a","m","e" >>,
           eloRate |-> << "e","l","o","r","a","t","e" >> ]
    ELSE [ twitch_name |-> << "t","w","i","t","c","h","_","n","a","m","e" >>,
           uuid |-> << "u","u","i","d" >>,
           nickname |-> << "n","i","c","k","n","a","m","e" >>,
           eloRate |-> << "e","l","o","R","a","t","e" >> ]

\* The header cells the column names are searched in: the viewer lowercases
\* them first, the root variant searches the cells as written.
SearchedHeaders(v, headers) ==
    IF v = "viewer" THEN mapToLowerCase(headers) ELSE headers

\* Mutant: the row stored under the username as written.
parseRow_KeyAsWritten(tempMap, line, nHeaders, idx) ==
    LET values == mapTrim(split(line, ","))
    IN IF Len(values) = nHeaders
       THEN LET twitchName == At(values, idx.twitch_name)
                uuid == At(values, idx.uuid)
                nickname == At(values, idx.nickname)
                eloRateStr == At(values, idx.eloRate)
            IN IF twitchName # << >> /\ uuid # << >>
               THEN Put(tempMap, twitchName,
                        [ uuid |-> uuid,
                          nickname |-> IF nickname # << >> THEN Some(nickname)
                                       ELSE None,
                          eloRate |-> IF eloRateStr # << >>
                                      THEN parseInt(eloRateStr) ELSE None ])
               ELSE tempMap
       ELSE tempMap

\* One iteration of the row loop: tempMap after line `line`.
parseRow(tempMap, line, nHeaders, idx) ==
    LET values == mapTrim(split(line, ","))
    IN IF Len(values) = nHeaders
       THEN LET twitchName == At(values, idx.twitch_name)
                uuid == At(values, idx.uuid)
                nickname == At(values, idx.nickname)
                eloRateStr == At(values, idx.eloRate)
            IN IF twitchName # << >> /\ uuid # << >>
               THEN Put(tempMap, toLowerCase(twitchName),
                        [ uuid |-> uuid,
                          nickname |-> IF nickname # << >> THEN Some(nickname)
                                       ELSE None,
                          eloRate |-> IF eloRateStr # << >>
                                      THEN parseInt(eloRateStr) ELSE None ])
               ELSE tempMap
       ELSE tempMap

\* Mutant: the row loop ending at the first row of another field count.
RECURSIVE parseRows_StopsAtMalformed(_, _, _, _, _)
parseRows_StopsAtMalformed(tempMap, lines, i, nHeaders, idx) ==
    IF i > Len(lines) \/ Len(split(lines[i], ",")) # nHeaders THEN tempMap
    ELSE parseRows_StopsAtMalformed(parseRow(tempMap, lines[i], nHeaders, idx),
                                    lines, i + 1, nHeaders, idx)

RECURSIVE parseRows(_, _, _, _, _)
parseRows(tempMap, lines, i, nHeaders, idx) ==
    IF i > Len(lines) THEN tempMap
    ELSE parseRows(parseRow(tempMap, lines[i], nHeaders, idx),
                   lines, i + 1, nHeaders, idx)

\* parseCsvData(csvText): None is the null result, Some(m) the map m.
parseCsvData(v, csvText) ==
    LET lines == split(trim(csvText), "\n")
    IN IF Len(lines) < 2 THEN None
       ELSE LET headers == mapTrim(split(lines[1], ","))
                searched == SearchedHeaders(v, headers)
                names == HeaderNames(v)
                idx == [ twitch_name |-> indexOf(searched, names.twitch_name),
                         uuid |-> indexOf(searched, names.uuid),
                         nickname |-> indexOf(searched, names.nickname),
                         eloRate |-> indexOf(searched, names.eloRate) ]
            IN IF idx.twitch_name = -1 \/ idx.uuid = -1
                  \/ idx.nickname = -1 \/ idx.eloRate = -1
               THEN None
               ELSE Some(parseRows(EmptyMap, lines, 2, Len(headers), idx))

\* -------------------------------------------------------------------------
\* The remote CSV file
\* -------------------------------------------------------------------------

RECURSIVE Join(_, _)
Join(parts, sep) ==
    IF Len(parts) = 0 THEN << >>
    ELSE IF Len(parts) = 1 THEN parts[1]
    ELSE parts[1] \o << sep >> \o Join(Tail(parts), sep)

CsvLine(fields) == Join(fields, ",")

CsvText(lines) == Join(lines, "\n")

\* The header line the data-update workflow writes.
CanonicalHeader ==
    CsvLine(<< << "u","u","i","d" >>,
               << "t","w","i","t","c","h","_","n","a","m","e" >>,
               << "n","i","c","k","n","a","m","e" >>,
               << "e","l","o","R","a","t","e" >> >>)

\* One rated player, mixed-case username.
CsvOne ==
    CsvText(<< CanonicalHeader,
               CsvLine(<< << "u","1" >>, << "A","l" >>, << "N","i","k" >>,
                          << "1","5","5","0" >> >>) >>)

\* Two players; the second has neither nickname nor rating.
CsvTwo ==
    CsvText(<< CanonicalHeader,
               CsvLine(<< << "u","1" >>, << "A","L" >>, << "N","i","k" >>,
                          << "9","0","0" >> >>),
               CsvLine(<< << "u","2" >>, << "B","o" >>, << >>, << >> >>) >>)

\* A valid header whose only row has no username: parses to an empty map.
CsvNoRows ==
    CsvText(<< CanonicalHeader,
               CsvLine(<< << "u","3" >>, << >>, << "N","i","k" >>,
                          << "7" >> >>) >>)

\* The rating column is missing: parseCsvData returns null.
CsvBadHeader ==
    CsvText(<< CsvLine(<< << "u","u","i","d" >>,
                          << "t","w","i","t","c","h","_","n","a","m","e" >>,
                          << "n","i","c","k","n","a","m","e" >> >>),
               CsvLine(<< << "u","1" >>, << "A","l" >>, << "N","i","k" >> >>) >>)

\* The bodies the remote server may answer a successful fetch with.
FetchTexts == { CsvOne, CsvTwo, CsvNoRows, CsvBadHeader }

\* -------------------------------------------------------------------------
\* Background script: state
\* -------------------------------------------------------------------------

VARIABLES
    variant,            \* "root" or "viewer": which background.js runs
    twitchUserDataMap,  \* the in-memory map
    isDataLoaded,       \* the loaded flag
    isFetching,         \* the in-flight flag of fetchAndStoreCsvData
    stored,             \* chrome.storage.local[STORAGE_KEY]: None when absent
    alarm,              \* whether an alarm named UPDATE_ALARM_NAME is registered
    tasks,              \* bag of handler invocations suspended at an await
    lastStep,           \* history: the step taken last and what it answered
    atRefreshStart,     \* history: map, flag and snapshot when the refresh
                        \* now in flight passed its guard; None when none is
    \* the content script running in one chat page
    contentScript,      \* which content script the page runs
    elements,           \* the username elements of the page and their marks
    lookups,            \* bag of getElo messages sent and not yet called back
    contextValid,       \* chrome.runtime.id is defined
    pageContainer,      \* the chat container now in the document, if any
    chatContainer,      \* the script's chatContainer
    chatObserver,       \* the container the chat observer observes, if any
    observerReconnectTimer, \* a timer for (re)starting the observer is pending
    pendingTimers,      \* how many timers the script has set are pending
    activeObservers,    \* how many chat observers are observing
    pageStep,           \* history: the content-script step taken last
    \* one call of a function of the scripts, looked at on its own
    csv,                \* the CSV file handed to parseCsvData, as cells
    parseCall,          \* whether parseCsvData has returned, and what
    eloArg,             \* the rating handed to getRankInfo
    rankCall,           \* whether getRankInfo has returned, and what
    eloCall,            \* whether handleEloRequest has returned, and what
    badge               \* the badge addEloDisplay has created, if any

backgroundVars ==
    << variant, twitchUserDataMap, isDataLoaded, isFetching, stored, alarm,
       tasks, lastStep, atRefreshStart >>

pageVars ==
    << contentScript, elements, lookups, contextValid, pageContainer,
       chatContainer, chatObserver, observerReconnectTimer, pendingTimers,
       activeObservers, pageStep >>

callVars == << csv, parseCall, eloArg, rankCall, eloCall, badge >>

vars == << backgroundVars, pageVars, callVars >>

Variants == { "root", "viewer" }

\* details.reason of an onInstalled event.
InstallReasons == { "install", "update" }

\* request.username of the getElo messages: absent, "", and cased names.
LookupNames ==
    { None, Some(<< >>), Some(<< "a","l" >>), Some(<< "A","l" >>),
      Some(<< "B","O" >>) }

\* A suspended invocation: the listener it belongs to (kind), the await it
\* is suspended at (pc) and its live locals; `cause` is why the refresh it
\* runs has failed ("" while it has not).
\*   pc = "load"     await loadDataFromStorage() called by the listener
\*   pc = "fetch"    await fetch(GITHUB_CSV_URL)
\*   pc = "text"     await response.text()
\*   pc = "set"      await chrome.storage.local.set, not yet written
\*   pc = "setAck"   await chrome.storage.local.set, written, not yet resumed
\*   pc = "fallback" await loadDataFromStorage() inside fetchAndStoreCsvData
\*   pc = "alarm"    setupUpdateAlarm has called chrome.alarms.clear (viewer)
\*                   or chrome.alarms.get (root); the browser has not yet
\*                   carried the request out
\*   pc = "alarmCallback"  the request is carried out, its callback is queued;
\*                   `existingAlarm` is what chrome.alarms.get found
Task(kind, pc, username, reason, parsedMap) ==
    [ kind |-> kind, pc |-> pc, username |-> username, reason |-> reason,
      parsedMap |-> parsedMap, cause |-> "", existingAlarm |-> FALSE ]

At_(t, pc) == [ t EXCEPT !.pc = pc ]

Running == BagToSet(tasks)

Spawn(t) == tasks (+) SetToBag({t})

Drop(t) == tasks (-) SetToBag({t})

Move(t, u) == (tasks (-) SetToBag({t})) (+) SetToBag({u})

HasRoom == BagCardinality(tasks) < MaxTasks

\* The awaits inside the try block of fetchAndStoreCsvData.
RefreshPcs == { "fetch", "text", "set", "setAck", "fallback" }

Refreshing == { t \in Running : t.pc \in RefreshPcs }

\* Number of fetchAndStoreCsvData calls in flight / of fetch() calls pending.
RefreshCount == BagCardinality([ t \in Refreshing |-> CopiesIn(t, tasks) ])

FetchCount ==
    BagCardinality([ t \in { u \in Running : u.pc = "fetch" } |-> CopiesIn(t, tasks) ])

\* The history record of a step: the action (op), the listener (kind), the
\* outcome of the awaited call or the branch taken (note), the request's
\* username, and the argument of sendResponse when the step called it.
\* `refresh` tells what a call of fetchAndStoreCsvData did in the step:
\* "started" (passed the guard), "skipped" (returned at the guard),
\* "failed" (returned false / nothing stored), "committed" (returned after
\* storing), "" when the step neither entered nor left that function.
Step(op, kind, note, refresh, username, eloResponse, updateResponse) ==
    [ op |-> op, kind |-> kind, note |-> note, refresh |-> refresh,
      username |-> username, eloResponse |-> eloResponse,
      updateResponse |-> updateResponse ]

UpdateResponse(success, message) == [ success |-> success, message |-> message ]

EloResponse(elo, nickname, uuid, status) ==
    [ elo |-> elo, nickname |-> nickname, uuid |-> uuid, status |-> status ]

Snapshot == [ map |-> twitchUserDataMap, loaded |-> isDataLoaded, stored |-> stored ]

\* -------------------------------------------------------------------------
\* Background script: functions
\* -------------------------------------------------------------------------

\* Mutant: handleEloRequest looking the name up as written, not lowercased.
handleEloRequest_CaseSensitive(v, username, loaded, dataMap) ==
    IF ~loaded
    THEN Some(EloResponse(None, None, None, "data_not_loaded"))
    ELSE IF v = "root" /\ IsNone(username)
    THEN None
    ELSE IF v = "viewer" /\ (IsNone(username) \/ Val(username) = << >>)
    THEN Some(EloResponse(None, None, None, "invalid_username"))
    ELSE IF Val(username) \in Keys(dataMap)
    THEN LET userData == dataMap[Val(username)]
         IN Some(EloResponse(userData.eloRate, userData.nickname,
                             Some(userData.uuid), "storage_hit"))
    ELSE Some(EloResponse(None, None, None, "not_found_in_map"))

\* handleEloRequest(username) read against the given flag and map.  The
\* result is None when the call throws (root: username.toLowerCase() of a
\* null username), else Some(response).
handleEloRequest(v, username, loaded, dataMap) ==
    IF ~loaded
    THEN Some(EloResponse(None, None, None, "data_not_loaded"))
    ELSE IF v = "root" /\ IsNone(username)
    THEN None
    ELSE IF v = "viewer" /\ (IsNone(username) \/ Val(username) = << >>)
    THEN Some(EloResponse(None, None, None, "invalid_username"))
    ELSE LET lowerCaseUsername == toLowerCase(Val(username))
         IN IF lowerCaseUsername \in Keys(dataMap)
            THEN LET userData == dataMap[lowerCaseUsername]
                 IN Some(EloResponse(userData.eloRate, userData.nickname,
                                     Some(userData.uuid), "storage_hit"))
            ELSE Some(EloResponse(None, None, None, "not_found_in_map"))

\* The result of chrome.storage.local.get(STORAGE_KEY): it rejects, or it
\* resolves with the snapshot as it is now.
GetResults == { [ error |-> TRUE, value |-> None ],
                [ error |-> FALSE, value |-> stored ] }

\* How the read went, for the history record.
GetNote(res) ==
    IF res.error THEN "get_error"
    ELSE IF IsNone(res.value) THEN "get_absent" ELSE "get_ok"

\* Mutant: loadDataFromStorage emptying the map when nothing could be loaded.
loadDataFromStorage_ClearsMap(res, dataMap) ==
    IF ~res.error /\ ~IsNone(res.value) /\ Keys(Val(res.value)) # {}
    THEN [ map |-> Val(res.value), loaded |-> TRUE ]
    ELSE [ map |-> EmptyMap, loaded |-> FALSE ]

\* Mutant: loadDataFromStorage adopting the snapshot without setting the flag.
loadDataFromStorage_NoFlag(res, dataMap) ==
    IF ~res.error /\ ~IsNone(res.value) /\ Keys(Val(res.value)) # {}
    THEN [ map |-> Val(res.value), loaded |-> FALSE ]
    ELSE [ map |-> dataMap, loaded |-> FALSE ]

\* loadDataFromStorage(): the map and the flag it leaves, given what
\* chrome.storage.local.get answered.
loadDataFromStorage(res, dataMap) ==
    IF ~res.error /\ ~IsNone(res.value) /\ Keys(Val(res.value)) # {}
    THEN [ map |-> Val(res.value), loaded |-> TRUE ]
    ELSE [ map |-> dataMap, loaded |-> FALSE ]

\* Mutant: fetchAndStoreCsvData without its isFetching guard.
fetchAndStoreCsvDataStarts_NoGuard(fetching) == TRUE

\* The guard at the head of fetchAndStoreCsvData: TRUE when the call goes on
\* to set isFetching and fetch, FALSE when it returns at once.  (The viewer's
\* second test, GITHUB_CSV_URL against the placeholder text, is never true:
\* the constant is set to the real URL.)
fetchAndStoreCsvDataStarts(fetching) == ~fetching

\* onInstalled: whether the listener calls fetchAndStoreCsvData after its
\* load.
InstallFetches(v, loaded, reason) ==
    IF v = "viewer" THEN ~loaded \/ reason = "install" ELSE ~loaded

\* parseCsvData of every body the server may answer with, per variant.
ParsedTexts ==
    [ v \in Variants |-> [ c \in FetchTexts |-> parseCsvData(v, c) ] ]

\* -------------------------------------------------------------------------
\* Background script: events
\* -------------------------------------------------------------------------

\* The history record of a content-script step: the handler (op), the
\* element a callback was for (el, 0 when none), what the callback received
\* (outcome) and whether the handler ended by an uncaught exception.  For a
\* run of processNewChatMessages, outcome is "repeat" and el the element
\* when the batch reached an element twice, "revisit" when it reached one
\* whose lookup was in flight.
PageStep(op, el, outcome, threw) ==
    [ op |-> op, el |-> el, outcome |-> outcome, threw |-> threw ]

\* A function call that has not returned, one that has returned `value`.
NotCalled == [ called |-> FALSE, value |-> None ]

Returned(value) == [ called |-> TRUE, value |-> value ]

\* No function is looked at on its own.
NoCalls ==
    /\ csv = << >>
    /\ parseCall = NotCalled
    /\ eloArg = None
    /\ rankCall = NotCalled
    /\ eloCall = NotCalled
    /\ badge = None

\* No content script: the page part of the state while only the background
\* script is looked at.
NoPage ==
    /\ contentScript = "none"
    /\ elements = << >>
    /\ lookups = EmptyBag
    /\ contextValid = TRUE
    /\ pageContainer = None
    /\ chatContainer = None
    /\ chatObserver = None
    /\ observerReconnectTimer = FALSE
    /\ pendingTimers = 0
    /\ activeObservers = 0
    /\ pageStep = PageStep("none", 0, "", FALSE)

Init ==
    /\ NoPage
    /\ NoCalls
    /\ variant \in Variants
    /\ twitchUserDataMap = EmptyMap
    /\ isDataLoaded = FALSE
    /\ isFetching = FALSE
    \* what an earlier run of the worker may have left behind
    /\ stored \in { None, ParsedTexts[variant][CsvOne] }
    /\ alarm \in BOOLEAN
    \* the loadDataFromStorage() call at the end of the script
    /\ tasks = SetToBag({ Task("script", "load", None, "", EmptyMap) })
    /\ lastStep = Step("Init", "script", "", "", None, None, None)
    /\ atRefreshStart = None

\* chrome.runtime.onInstalled fires: the listener runs up to its first await.
OnInstalled ==
    \E reason \in InstallReasons :
        /\ HasRoom
        /\ tasks' = Spawn(Task("onInstalled", "load", None, reason, EmptyMap))
        /\ lastStep' = Step("OnInstalled", "onInstalled", reason, "", None, None, None)
        /\ UNCHANGED << callVars, pageVars, variant, twitchUserDataMap, isDataLoaded, isFetching,
                        stored, alarm, atRefreshStart >>

\* chrome.runtime.onStartup fires.
OnStartup ==
    /\ HasRoom
    /\ tasks' = Spawn(Task("onStartup", "load", None, "", EmptyMap))
    /\ lastStep' = Step("OnStartup", "onStartup", "", "", None, None, None)
    /\ UNCHANGED << callVars, pageVars, variant, twitchUserDataMap, isDataLoaded, isFetching,
                    stored, alarm, atRefreshStart >>

\* Mutant: the guard of fetchAndStoreCsvData placed inside its try block, so
\* that the finally block clears isFetching for the rejected call too.
OnAlarm_GuardInsideTry ==
    /\ alarm
    /\ IF ~isFetching
       THEN /\ HasRoom
            /\ isFetching' = TRUE
            /\ atRefreshStart' = Some(Snapshot)
            /\ tasks' = Spawn(Task("onAlarm", "fetch", None, "", EmptyMap))
            /\ lastStep' = Step("OnAlarm", "onAlarm", "", "started", None, None, None)
       ELSE /\ isFetching' = FALSE
            /\ UNCHANGED << tasks, atRefreshStart >>
            /\ lastStep' = Step("OnAlarm", "onAlarm", "", "skipped", None, None, None)
    /\ UNCHANGED << callVars, pageVars, variant, twitchUserDataMap, isDataLoaded, stored, alarm >>

\* chrome.alarms.onAlarm fires for the registered update alarm: the listener
\* calls fetchAndStoreCsvData() and does not wait for it.
OnAlarm ==
    /\ alarm
    /\ IF fetchAndStoreCsvDataStarts(isFetching)
       THEN /\ HasRoom
            /\ isFetching' = TRUE
            /\ atRefreshStart' = Some(Snapshot)
            /\ tasks' = Spawn(Task("onAlarm", "fetch", None, "", EmptyMap))
            /\ lastStep' = Step("OnAlarm", "onAlarm", "", "started", None, None, None)
       ELSE /\ UNCHANGED << isFetching, tasks, atRefreshStart >>
            /\ lastStep' = Step("OnAlarm", "onAlarm", "", "skipped", None, None, None)
    /\ UNCHANGED << callVars, pageVars, variant, twitchUserDataMap, isDataLoaded, stored, alarm >>

\* onMessage receives { action: "getElo", username }.
GetElo ==
    \E username \in LookupNames :
        /\ IF ~isDataLoaded
           THEN /\ HasRoom
                /\ tasks' = Spawn(Task("getElo", "load", username, "", EmptyMap))
                /\ lastStep' = Step("GetElo", "getElo", "loading", "", username,
                                    None, None)
           ELSE LET r == handleEloRequest(variant, username, isDataLoaded,
                                          twitchUserDataMap)
                IN /\ UNCHANGED tasks
                   /\ lastStep' = Step("GetElo", "getElo",
                                       IF IsNone(r) THEN "TypeError" ELSE "answered",
                                       "", username, r, None)
        /\ UNCHANGED << callVars, pageVars, variant, twitchUserDataMap, isDataLoaded, isFetching,
                        stored, alarm, atRefreshStart >>

\* onMessage receives { action: "forceCsvUpdate" }.  The root variant has no
\* branch for it: the listener returns true and never answers.
ForceCsvUpdate ==
    /\ IF variant = "root"
       THEN /\ UNCHANGED << isFetching, tasks, atRefreshStart >>
            /\ lastStep' = Step("ForceCsvUpdate", "forceCsvUpdate", "no_handler",
                                "", None, None, None)
       ELSE IF isFetching
       THEN /\ UNCHANGED << isFetching, tasks, atRefreshStart >>
            /\ lastStep' = Step("ForceCsvUpdate", "forceCsvUpdate", "busy", "",
                                None, None,
                                Some(UpdateResponse(FALSE, "Fetch already in progress.")))
       ELSE IF fetchAndStoreCsvDataStarts(isFetching)
       THEN /\ HasRoom
            /\ isFetching' = TRUE
            /\ atRefreshStart' = Some(Snapshot)
            /\ tasks' = Spawn(Task("forceCsvUpdate", "fetch", None, "", EmptyMap))
            /\ lastStep' = Step("ForceCsvUpdate", "forceCsvUpdate", "", "started",
                                None, None, None)
       ELSE /\ UNCHANGED << isFetching, tasks, atRefreshStart >>
            /\ lastStep' = Step("ForceCsvUpdate", "forceCsvUpdate", "", "skipped",
                                None, None, Some(UpdateResponse(FALSE, "")))
    /\ UNCHANGED << callVars, pageVars, variant, twitchUserDataMap, isDataLoaded, stored, alarm >>

\* -------------------------------------------------------------------------
\* Background script: completions of awaited calls
\* -------------------------------------------------------------------------

\* What the caller of fetchAndStoreCsvData does when the call returns: the
\* alarm listener nothing, the message listener answers, onInstalled goes on
\* to setupUpdateAlarm().
TasksAfterRefresh(t) ==
    IF t.kind = "onInstalled"
    THEN Move(t, [ t EXCEPT !.pc = "alarm", !.parsedMap = EmptyMap, !.cause = "" ])
    ELSE Drop(t)

\* Mutant: the message listener answering success whatever the refresh
\* returned.
ResponseAfterRefresh_AlwaysTrue(t, success) ==
    IF t.kind = "forceCsvUpdate" THEN Some(UpdateResponse(TRUE, "")) ELSE None

\* The .then of the forceCsvUpdate branch: sendResponse({ success }).
ResponseAfterRefresh(t, success) ==
    IF t.kind = "forceCsvUpdate" THEN Some(UpdateResponse(success, "")) ELSE None

\* Mutant: fetchAndStoreCsvData without its finally block on the failure
\* paths that do not load from storage.
RefreshFails_NoFinally(t, op, cause) ==
    /\ IF ~isDataLoaded
       THEN /\ tasks' = Move(t, [ t EXCEPT !.pc = "fallback",
                                           !.parsedMap = EmptyMap,
                                           !.cause = cause ])
            /\ lastStep' = Step(op, t.kind, cause, "", None, None, None)
            /\ UNCHANGED << isFetching, atRefreshStart >>
       ELSE /\ tasks' = TasksAfterRefresh(t)
            /\ lastStep' = Step(op, t.kind, cause, "failed", None, None,
                                ResponseAfterRefresh(t, FALSE))
            /\ UNCHANGED << isFetching, atRefreshStart >>
    /\ UNCHANGED << callVars, pageVars, variant, twitchUserDataMap, isDataLoaded, stored, alarm >>

\* The catch block and the else branch of fetchAndStoreCsvData: keep the old
\* data, load it from storage when nothing is loaded, return false; the
\* finally block clears isFetching on return.
RefreshFails(t, op, cause) ==
    /\ IF ~isDataLoaded
       THEN /\ tasks' = Move(t, [ t EXCEPT !.pc = "fallback",
                                           !.parsedMap = EmptyMap,
                                           !.cause = cause ])
            /\ lastStep' = Step(op, t.kind, cause, "", None, None, None)
            /\ UNCHANGED << isFetching, atRefreshStart >>
       ELSE /\ tasks' = TasksAfterRefresh(t)
            /\ lastStep' = Step(op, t.kind, cause, "failed", None, None,
                                ResponseAfterRefresh(t, FALSE))
            /\ isFetching' = FALSE
            /\ atRefreshStart' = None
    /\ UNCHANGED << callVars, pageVars, variant, twitchUserDataMap, isDataLoaded, stored, alarm >>

\* chrome.storage.local.get completes for a loadDataFromStorage() that a
\* listener (or the script itself) called; the listener then runs on to its
\* next await or to its end.
StorageGetDone ==
    \E t \in Running, res \in GetResults :
        /\ t.pc = "load"
        /\ LET new == loadDataFromStorage(res, twitchUserDataMap)
               note == GetNote(res)
           IN /\ twitchUserDataMap' = new.map
              /\ isDataLoaded' = new.loaded
              /\ CASE t.kind = "script" ->
                        /\ tasks' = Drop(t)
                        /\ lastStep' = Step("StorageGetDone", t.kind, note, "",
                                            None, None, None)
                        /\ UNCHANGED << isFetching, atRefreshStart >>
                   [] t.kind = "onStartup" ->
                        /\ tasks' = Move(t, At_(t, "alarm"))
                        /\ lastStep' = Step("StorageGetDone", t.kind, note, "",
                                            None, None, None)
                        /\ UNCHANGED << isFetching, atRefreshStart >>
                   [] t.kind = "getElo" ->
                        /\ tasks' = Drop(t)
                        /\ lastStep' = Step("StorageGetDone", t.kind, note, "",
                                            t.username,
                                            handleEloRequest(variant, t.username,
                                                             new.loaded, new.map),
                                            None)
                        /\ UNCHANGED << isFetching, atRefreshStart >>
                   [] t.kind = "onInstalled" ->
                        IF ~InstallFetches(variant, new.loaded, t.reason)
                        THEN /\ tasks' = Move(t, At_(t, "alarm"))
                             /\ lastStep' = Step("StorageGetDone", t.kind, note,
                                                 "", None, None, None)
                             /\ UNCHANGED << isFetching, atRefreshStart >>
                        ELSE IF fetchAndStoreCsvDataStarts(isFetching)
                        THEN /\ tasks' = Move(t, At_(t, "fetch"))
                             /\ lastStep' = Step("StorageGetDone", t.kind, note,
                                                 "started", None, None, None)
                             /\ isFetching' = TRUE
                             /\ atRefreshStart' =
                                    Some([ map |-> new.map, loaded |-> new.loaded,
                                           stored |-> stored ])
                        ELSE /\ tasks' = Move(t, At_(t, "alarm"))
                             /\ lastStep' = Step("StorageGetDone", t.kind, note,
                                                 "skipped", None, None, None)
                             /\ UNCHANGED << isFetching, atRefreshStart >>
        /\ UNCHANGED << callVars, pageVars, variant, stored, alarm >>

\* fetch() completes: it rejects, answers with a non-success status, or
\* answers ok.
FetchDone ==
    \E t \in Running, outcome \in { "fetch_rejected", "status_not_ok", "ok" } :
        /\ t.pc = "fetch"
        /\ IF outcome = "ok"
           THEN /\ tasks' = Move(t, At_(t, "text"))
                /\ lastStep' = Step("FetchDone", t.kind, outcome, "", None, None, None)
                /\ UNCHANGED << callVars, pageVars, variant, twitchUserDataMap, isDataLoaded,
                                isFetching, stored, alarm, atRefreshStart >>
           ELSE RefreshFails(t, "FetchDone", outcome)

\* Mutant: a parsed map is committed whether or not it has entries.
TextDone_CommitsEmpty ==
    \E t \in Running, csvText \in FetchTexts :
        /\ t.pc = "text"
        /\ LET parsedMap == ParsedTexts[variant][csvText]
           IN IF ~IsNone(parsedMap)
              THEN /\ tasks' = Move(t, [ t EXCEPT !.pc = "set",
                                                  !.parsedMap = Val(parsedMap) ])
                   /\ lastStep' = Step("TextDone", t.kind, "parsed", "", None,
                                       None, None)
                   /\ UNCHANGED << callVars, pageVars, variant, twitchUserDataMap, isDataLoaded,
                                   isFetching, stored, alarm, atRefreshStart >>
              ELSE RefreshFails(t, "TextDone", "parse_null")

\* response.text() resolves with the body; the body is parsed.
TextDone ==
    \E t \in Running, csvText \in FetchTexts :
        /\ t.pc = "text"
        /\ LET parsedMap == ParsedTexts[variant][csvText]
           IN IF ~IsNone(parsedMap) /\ Keys(Val(parsedMap)) # {}
              THEN /\ tasks' = Move(t, [ t EXCEPT !.pc = "set",
                                                  !.parsedMap = Val(parsedMap) ])
                   /\ lastStep' = Step("TextDone", t.kind, "parsed", "", None,
                                       None, None)
                   /\ UNCHANGED << callVars, pageVars, variant, twitchUserDataMap, isDataLoaded,
                                   isFetching, stored, alarm, atRefreshStart >>
              ELSE RefreshFails(t, "TextDone",
                                IF IsNone(parsedMap) THEN "parse_null"
                                ELSE "parse_empty")

\* response.text() rejects (the body could not be read).
TextFails ==
    \E t \in Running :
        /\ t.pc = "text"
        /\ RefreshFails(t, "TextFails", "text_rejected")

\* Mutant: the new map assigned in memory as soon as it is written, before
\* the write is acknowledged.
StorageSetWrites_AdoptsEarly ==
    \E t \in Running :
        /\ t.pc = "set"
        /\ stored' = Some(t.parsedMap)
        /\ twitchUserDataMap' = t.parsedMap
        /\ tasks' = Move(t, At_(t, "setAck"))
        /\ lastStep' = Step("StorageSetWrites", t.kind, "", "", None, None, None)
        /\ UNCHANGED << callVars, pageVars, variant, isDataLoaded, isFetching,
                        alarm, atRefreshStart >>

\* chrome.storage.local.set writes the snapshot; its promise is not yet
\* resolved.
StorageSetWrites ==
    \E t \in Running :
        /\ t.pc = "set"
        /\ stored' = Some(t.parsedMap)
        /\ tasks' = Move(t, At_(t, "setAck"))
        /\ lastStep' = Step("StorageSetWrites", t.kind, "", "", None, None, None)
        /\ UNCHANGED << callVars, pageVars, variant, twitchUserDataMap, isDataLoaded, isFetching,
                        alarm, atRefreshStart >>

\* Mutant: the new map adopted before the write is awaited, so that it stays
\* in memory when the write is rejected.
StorageSetFails_AdoptsFirst ==
    \E t \in Running :
        /\ t.pc = "set"
        /\ twitchUserDataMap' = t.parsedMap
        /\ isDataLoaded' = TRUE
        /\ isFetching' = FALSE
        /\ atRefreshStart' = None
        /\ tasks' = TasksAfterRefresh(t)
        /\ lastStep' = Step("StorageSetFails", t.kind, "set_rejected", "failed",
                            None, None, ResponseAfterRefresh(t, FALSE))
        /\ UNCHANGED << callVars, pageVars, variant, stored, alarm >>

\* chrome.storage.local.set rejects; nothing was written.
StorageSetFails ==
    \E t \in Running :
        /\ t.pc = "set"
        /\ RefreshFails(t, "StorageSetFails", "set_rejected")

\* chrome.storage.local.set resolves: the new map is adopted, the flag set,
\* fetchAndStoreCsvData returns.
StorageSetDone ==
    \E t \in Running :
        /\ t.pc = "setAck"
        /\ twitchUserDataMap' = t.parsedMap
        /\ isDataLoaded' = TRUE
        /\ isFetching' = FALSE
        /\ atRefreshStart' = None
        /\ tasks' = TasksAfterRefresh(t)
        /\ lastStep' = Step("StorageSetDone", t.kind, "", "committed", None, None,
                            ResponseAfterRefresh(t, TRUE))
        /\ UNCHANGED << callVars, pageVars, variant, stored, alarm >>

\* chrome.storage.local.get completes for the loadDataFromStorage() that the
\* failure path of fetchAndStoreCsvData awaits; the function then returns.
FallbackLoadDone ==
    \E t \in Running, res \in GetResults :
        /\ t.pc = "fallback"
        /\ LET new == loadDataFromStorage(res, twitchUserDataMap)
           IN /\ twitchUserDataMap' = new.map
              /\ isDataLoaded' = new.loaded
        /\ lastStep' = Step("FallbackLoadDone", t.kind, t.cause, "failed",
                            None, None, ResponseAfterRefresh(t, FALSE))
        /\ isFetching' = FALSE
        /\ atRefreshStart' = None
        /\ tasks' = TasksAfterRefresh(t)
        /\ UNCHANGED << callVars, pageVars, variant, stored, alarm >>

\* The browser carries out the request setupUpdateAlarm made: in the viewer
\* chrome.alarms.clear removes the alarm of that name, in the root script
\* chrome.alarms.get reads it.  The callback is queued with the result.
AlarmsRequestDone ==
    \E t \in Running :
        /\ t.pc = "alarm"
        /\ alarm' = IF variant = "viewer" THEN FALSE ELSE alarm
        /\ tasks' = Move(t, [ t EXCEPT !.pc = "alarmCallback",
                                       !.existingAlarm = (variant = "root" /\ alarm) ])
        /\ lastStep' = Step("AlarmsRequestDone", t.kind, "", "", None, None, None)
        /\ UNCHANGED << callVars, pageVars, variant, twitchUserDataMap, isDataLoaded, isFetching,
                        stored, atRefreshStart >>

\* Mutant: the callback of setupUpdateAlarm creating nothing.
AlarmCallback_NoCreate ==
    \E t \in Running :
        /\ t.pc = "alarmCallback"
        /\ tasks' = Drop(t)
        /\ lastStep' = Step("AlarmCallback", t.kind, "", "", None, None, None)
        /\ UNCHANGED << callVars, pageVars, variant, twitchUserDataMap, isDataLoaded, isFetching,
                        stored, alarm, atRefreshStart >>

\* The callback of setupUpdateAlarm runs: chrome.alarms.create in the viewer,
\* chrome.alarms.create if chrome.alarms.get found no alarm in the root
\* script.  chrome.alarms.create replaces an alarm of the same name.
AlarmCallback ==
    \E t \in Running :
        /\ t.pc = "alarmCallback"
        /\ alarm' = IF variant = "viewer" \/ ~t.existingAlarm THEN TRUE ELSE alarm
        /\ tasks' = Drop(t)
        /\ lastStep' = Step("AlarmCallback", t.kind, "", "", None, None, None)
        /\ UNCHANGED << callVars, pageVars, variant, twitchUserDataMap, isDataLoaded, isFetching,
                        stored, atRefreshStart >>

Next ==
    \/ OnInstalled
    \/ OnStartup
    \/ OnAlarm
    \/ GetElo
    \/ ForceCsvUpdate
    \/ StorageGetDone
    \/ FetchDone
    \/ TextDone
    \/ TextFails
    \/ StorageSetWrites
    \/ StorageSetFails
    \/ StorageSetDone
    \/ FallbackLoadDone
    \/ AlarmsRequestDone
    \/ AlarmCallback

Spec == Init /\ [][Next]_vars

\* The background script with the browser's scheduling: every awaited call
\* of a refresh in flight (fetch, response.text, storage.local.set, the
\* fallback storage.local.get) settles.
AwaitSettles ==
    \/ FetchDone
    \/ TextDone
    \/ TextFails
    \/ StorageSetWrites
    \/ StorageSetFails
    \/ StorageSetDone
    \/ FallbackLoadDone

FairSpec == Spec /\ WF_vars(AwaitSettles)

\* -------------------------------------------------------------------------
\* Content scripts: the page, the messages, the functions
\* -------------------------------------------------------------------------

\* Most getElo messages in flight, and most username elements a batch of
\* mutation records leads to (an element may be reached more than once).
MaxLookups == 2

MaxBatch == 2

\* The four content scripts: src/content.js, src/mcsr_app_viewer/content.js,
\* src/unnamed/part_002 ("Hide N/A") and src/unnamed/part_001 ("SPA Ready").
ContentScripts == { "root", "viewer", "hideNA", "spa" }

\* The background script a content script talks to: src/content.js sits
\* next to src/background.js, the others belong to mcsr_app_viewer.
BackgroundOf(script) == IF script = "root" THEN "root" ELSE "viewer"

\* The username elements a page may hold and their textContent: two chat
\* lines of the same user, one of another user, one with blank text.  The
\* elements of the page at hand are the domain of `elements`.
ElementText ==
    << << "A","l" >>, << " ","A","l" >>, << "B","o" >>, << " " >> >>

\* A username element: attached is TRUE while it is in the document under
\* a parent node; processing / processed are the classes
\* mcsr-elo-processing / mcsr-elo-processed; badges counts the badge spans
\* the script inserted after it.
Element(attached, processing, processed, badges) ==
    [ attached |-> attached, processing |-> processing,
      processed |-> processed, badges |-> badges ]

\* A getElo message in flight: the element its callback closes over, the
\* username sent, and whether the element carried the processing class when
\* sendMessage was called.
Lookup(el, username, marked) ==
    [ el |-> el, username |-> username, marked |-> marked ]

LookupsFor(bag, e) ==
    BagCardinality([ l \in { k \in BagToSet(bag) : k.el = e }
                     |-> CopiesIn(l, bag) ])

\* The maps the background script may hold when it answers.
LookupMaps(v) == { Val(ParsedTexts[v][CsvOne]), Val(ParsedTexts[v][CsvTwo]) }

\* What the callback of sendMessage may receive for a username: nothing and
\* chrome.runtime.lastError set (no receiving end, port closed), or what
\* handleEloRequest of the paired background script answers in one of its
\* states.
Outcome(lastError, response) == [ lastError |-> lastError, response |-> response ]

CallbackOutcomes(script, username) ==
    { Outcome(TRUE, None) } \cup
    { Outcome(FALSE, handleEloRequest(BackgroundOf(script), Some(username),
                                      loaded, dataMap)) :
        loaded \in BOOLEAN, dataMap \in LookupMaps(BackgroundOf(script)) }

OutcomeNote(o) ==
    IF o.lastError THEN "lastError"
    ELSE IF IsNone(o.response) THEN "undefined"
    ELSE IF Val(o.response).status = "storage_hit" /\ IsNone(Val(o.response).elo)
    THEN "hit_null_elo"
    ELSE Val(o.response).status

\* The statuses for which each script's callback does not call
\* addEloDisplay.
SkippedStatuses(script) ==
    CASE script = "root" -> { "not_found_in_map", "data_loading" }
      [] script = "viewer" ->
            { "not_found_in_map", "data_not_loaded", "invalid_username" }
      [] OTHER ->
            { "not_found_in_local_data", "data_not_loaded", "invalid_username" }

\* The result of a function on an element: the element as it leaves it, and
\* whether the function ended by throwing.
Result(el, threw) == [ el |-> el, threw |-> threw ]

\* Mutant: addEloDisplay marking the element and inserting no badge.
addEloDisplay_MarksOnly(script, el, eloData) ==
    IF script \in { "hideNA", "spa" } /\ IsNone(eloData.elo)
    THEN Result(el, FALSE)
    ELSE IF el.processed
    THEN Result(el, FALSE)
    ELSE Result([ el EXCEPT !.processed = TRUE ], FALSE)

\* Mutant: addEloDisplay without its test of the processed class.
addEloDisplay_NoProcessedTest(script, el, eloData) ==
    IF script \in { "hideNA", "spa" } /\ IsNone(eloData.elo)
    THEN Result(el, FALSE)
    ELSE IF el.attached
    THEN Result([ el EXCEPT !.processed = TRUE, !.badges = @ + 1 ], FALSE)
    ELSE Result([ el EXCEPT !.processed = TRUE ], script = "root")

\* addEloDisplay(usernameElement, eloData).  usernameElement.querySelector
\* ('.mcsr-elo-badge') looks inside the username element, where the script
\* never puts a badge (it inserts it after the element), so that test finds
\* nothing.  src/content.js calls parentNode.insertBefore without testing
\* parentNode: it throws for an element that has none.
addEloDisplay(script, el, eloData) ==
    IF script \in { "hideNA", "spa" } /\ IsNone(eloData.elo)
    THEN Result(el, FALSE)
    ELSE IF el.processed
    THEN Result(el, FALSE)
    ELSE IF el.attached
    THEN Result([ el EXCEPT !.processed = TRUE, !.badges = @ + 1 ], FALSE)
    ELSE Result([ el EXCEPT !.processed = TRUE ], script = "root")

\* Mutant: every script testing the processed class only, as
\* src/content.js and mcsr_app_viewer/content.js do.
ShouldLookUp_ProcessedOnly(script, el) == ~el.processed

\* The test processNewChatMessages makes of a username element before it
\* looks at its text.
ShouldLookUp(script, el) ==
    IF script \in { "hideNA", "spa" }
    THEN ~el.processed /\ ~el.processing
    ELSE ~el.processed

\* Mutant: no script adding the processing class before it sends.
MarkProcessing_Never(script, el) == el

\* classList.add('mcsr-elo-processing') ahead of sendMessage; src/content.js
\* has no such line.
MarkProcessing(script, el) ==
    IF script = "root" THEN el ELSE [ el EXCEPT !.processing = TRUE ]

\* The state a run of processNewChatMessages carries from one username
\* element to the next.
Scan(els, sent, threw) == [ els |-> els, sent |-> sent, threw |-> threw ]

\* The body of usernameElements.forEach for one username element.  With
\* the context invalidated sendMessage throws: the SPA script tests
\* chrome.runtime.id first and takes the class back; in the other scripts
\* the exception leaves the observer callback.
Visit(script, valid, st, e) ==
    LET el == st.els[e]
        username == trim(ElementText[e])
        marked == MarkProcessing(script, el)
    IN IF st.threw \/ ~ShouldLookUp(script, el) \/ username = << >>
       THEN st
       ELSE IF script = "spa" /\ ~valid
       THEN Scan([ st.els EXCEPT ![e] = [ marked EXCEPT !.processing = FALSE ] ],
                 st.sent, FALSE)
       ELSE IF ~valid
       THEN Scan([ st.els EXCEPT ![e] = marked ], st.sent, TRUE)
       ELSE Scan([ st.els EXCEPT ![e] = marked ],
                 st.sent (+) SetToBag({ Lookup(e, username, marked.processing) }),
                 FALSE)

\* The loops of processNewChatMessages over the username elements a batch
\* of mutation records leads to, in order.
RECURSIVE processNewChatMessages(_, _, _, _)
processNewChatMessages(script, valid, st, batch) ==
    IF batch = << >> THEN st
    ELSE processNewChatMessages(script, valid,
                                Visit(script, valid, st, Head(batch)),
                                Tail(batch))

\* Mutant: every script looking the element up again by its text, as the
\* callback of src/content.js does.
TargetElement_ByText(script, els, l) ==
    LET found == { e \in DOMAIN els :
                     /\ els[e].attached
                     /\ trim(ElementText[e]) = l.username
                     /\ ~els[e].processed }
    IN IF found = {} THEN l.el
       ELSE CHOOSE e \in found : \A f \in found : e <= f

\* src/content.js looks the element up again before it annotates: the
\* first display-name element of the document with the same text and
\* without the processed class, else the element it sent the message for.
TargetElement(script, els, l) ==
    IF script # "root" THEN l.el
    ELSE LET found == { e \in DOMAIN els :
                          /\ els[e].attached
                          /\ trim(ElementText[e]) = l.username
                          /\ ~els[e].processed }
         IN IF found = {} THEN l.el
            ELSE CHOOSE e \in found : \A f \in found : e <= f

\* Mutant: the callback leaving the processing class on an element it did
\* not annotate.
Callback_KeepsProcessing(script, valid, els, l, o) ==
    LET shows == /\ ~o.lastError
                 /\ ~IsNone(o.response)
                 /\ Val(o.response).status \notin SkippedStatuses(script)
        t == TargetElement(script, els, l)
        r == addEloDisplay(script, els[t], Val(o.response))
    IN IF shows THEN [ els |-> [ els EXCEPT ![t] = r.el ], threw |-> r.threw ]
       ELSE [ els |-> els, threw |-> FALSE ]

\* Mutant: the callback taking the processing class off in every case, also
\* after a badge was added.
Callback_AlwaysClears(script, valid, els, l, o) ==
    LET shows == /\ ~o.lastError
                 /\ ~IsNone(o.response)
                 /\ Val(o.response).status \notin SkippedStatuses(script)
        t == TargetElement(script, els, l)
        r == addEloDisplay(script, els[t], Val(o.response))
        after == IF shows THEN [ els EXCEPT ![t] = r.el ] ELSE els
    IN [ els |-> [ after EXCEPT ![l.el].processing = FALSE ],
         threw |-> shows /\ r.threw ]

\* The callback passed to sendMessage, run for the lookup l with what the
\* background script answered.
Callback(script, valid, els, l, o) ==
    LET shows == /\ ~o.lastError
                 /\ ~IsNone(o.response)
                 /\ Val(o.response).status \notin SkippedStatuses(script)
        t == TargetElement(script, els, l)
        r == addEloDisplay(script, els[t], Val(o.response))
        after == IF shows THEN [ els EXCEPT ![t] = r.el ] ELSE els
        cleared == [ after EXCEPT ![l.el].processing = FALSE ]
    IN CASE script = "spa" /\ ~valid ->
              [ els |-> [ els EXCEPT ![l.el].processing = FALSE ], threw |-> FALSE ]
         [] script = "root" ->
              [ els |-> after, threw |-> shows /\ r.threw ]
         [] OTHER ->
              [ els |-> IF shows /\ after[l.el].processed THEN after ELSE cleared,
                threw |-> FALSE ]

\* -------------------------------------------------------------------------
\* Content scripts: events
\* -------------------------------------------------------------------------

\* The chat containers the single-page application may put in the document.
Containers == { 1, 2 }

\* The batches of username elements one delivery of mutation records may
\* lead the loops through.
Batches == UNION { [ 1..n -> DOMAIN elements ] : n \in 1..MaxBatch }

\* The background part of the state while only a content script is looked
\* at.
NoBackground ==
    /\ variant = BackgroundOf(contentScript)
    /\ twitchUserDataMap = EmptyMap
    /\ isDataLoaded = FALSE
    /\ isFetching = FALSE
    /\ stored = None
    /\ alarm = FALSE
    /\ tasks = EmptyBag
    /\ lastStep = Step("Init", "script", "", "", None, None, None)
    /\ atRefreshStart = None

\* The elements of the page looked at with all four scripts: two chat
\* lines of one user and one of another.
PageElements == { 1, 2, 3 }

\* A page of a classic chat view after one of the content scripts has run
\* to its end: the chat container was in the document, the first
\* startObserver() / initializeObserver() found it, and the page keeps it.
PageInit ==
    /\ contentScript \in ContentScripts
    /\ NoBackground
    /\ NoCalls
    /\ elements = [ e \in PageElements |-> Element(TRUE, FALSE, FALSE, 0) ]
    /\ lookups = EmptyBag
    /\ contextValid = TRUE
    /\ pageContainer = Some(1)
    /\ chatContainer = pageContainer
    /\ chatObserver = pageContainer
    /\ observerReconnectTimer = FALSE
    /\ pendingTimers = 0
    /\ activeObservers = 1
    /\ pageStep = PageStep("load", 0, "", FALSE)

\* The elements of the single-page application looked at with the SPA
\* script: a chat line of a rated user, one of an unrated user, and one
\* whose username element has blank text.
SpaElements == { 1, 3, 4 }

\* A page of the single-page application after the SPA script has run to
\* its end: its first initializeObserver() found the container or set the
\* retry timer; the page may replace the container whenever it likes.
SpaInit ==
    /\ contentScript = "spa"
    /\ NoBackground
    /\ NoCalls
    /\ elements = [ e \in SpaElements |-> Element(TRUE, FALSE, FALSE, 0) ]
    /\ lookups = EmptyBag
    /\ contextValid = TRUE
    /\ pageContainer \in { None, Some(1) }
    /\ chatContainer = pageContainer
    /\ chatObserver = pageContainer
    /\ observerReconnectTimer = IsNone(pageContainer)
    /\ pendingTimers = (IF IsNone(pageContainer) THEN 1 ELSE 0)
    /\ activeObservers = (IF IsNone(pageContainer) THEN 0 ELSE 1)
    /\ pageStep = PageStep("load", 0, "", FALSE)

\* Mutant: clearTimeout leaving the timer pending.
clearTimeout_Noop(pending, handlePending) == pending

\* clearTimeout(observerReconnectTimer): how many timers are pending after
\* the call, given how many were and whether the handle the script holds is
\* that of a pending one (a handle that is null or has fired cancels nothing).
clearTimeout(pending, handlePending) ==
    IF handlePending THEN pending - 1 ELSE pending

\* observerReconnectTimer = setTimeout(initializeObserver, ...): one more
\* timer is pending.
setTimeout(pending) == pending + 1

\* Mutant: the previous chat observer left observing.
disconnect_Keeps(observers, observer) == observers

\* if (chatObserver) { chatObserver.disconnect(); chatObserver = null }: how
\* many chat observers are observing afterwards.
disconnect(observers, observer) ==
    IF IsNone(observer) THEN observers ELSE observers - 1

\* chatObserver = new MutationObserver(...); chatObserver.observe(found),
\* when a container was found.
observe(observers, found) ==
    IF IsNone(found) THEN observers ELSE observers + 1

\* The elements a batch reaches at two places, and those it reaches while a
\* lookup sent by an earlier batch is in flight for them.
Repeated(batch) ==
    { batch[i] : i \in { k \in DOMAIN batch :
                            \E j \in DOMAIN batch : j # k /\ batch[j] = batch[k] } }

Revisited(batch) ==
    { batch[i] : i \in { k \in DOMAIN batch : LookupsFor(lookups, batch[k]) >= 1 } }

BatchStep(batch, threw) ==
    IF Repeated(batch) # {}
    THEN PageStep("processNewChatMessages", CHOOSE e \in Repeated(batch) : TRUE,
                  "repeat", threw)
    ELSE IF Revisited(batch) # {}
    THEN PageStep("processNewChatMessages", CHOOSE e \in Revisited(batch) : TRUE,
                  "revisit", threw)
    ELSE PageStep("processNewChatMessages", 0, "", threw)

\* The chat observer delivers mutation records: processNewChatMessages runs
\* over the username elements under the added nodes.  The SPA script first
\* tests that its container is still connected and, if not, sets the timer
\* and returns.
ChatMutations ==
    \E batch \in Batches :
        /\ ~IsNone(chatObserver)
        /\ \A i \in DOMAIN batch : elements[batch[i]].attached
        /\ IF contentScript = "spa"
              /\ (IsNone(chatContainer) \/ pageContainer # chatContainer)
           THEN /\ observerReconnectTimer' = TRUE
                /\ pendingTimers' =
                      setTimeout(clearTimeout(pendingTimers,
                                              observerReconnectTimer))
                /\ pageStep' = PageStep("reconnect", 0, "", FALSE)
                /\ UNCHANGED << elements, lookups >>
           ELSE LET st == processNewChatMessages(contentScript, contextValid,
                                                 Scan(elements, EmptyBag, FALSE),
                                                 batch)
                IN /\ BagCardinality(lookups (+) st.sent) <= MaxLookups
                   /\ elements' = st.els
                   /\ lookups' = lookups (+) st.sent
                   /\ pageStep' = BatchStep(batch, st.threw)
                   /\ UNCHANGED << observerReconnectTimer, pendingTimers >>
        /\ UNCHANGED << callVars, backgroundVars, contentScript, contextValid,
                        pageContainer, chatContainer, chatObserver,
                        activeObservers >>

\* The callback of one getElo message runs.
LookupCallback ==
    \E l \in BagToSet(lookups) :
        \E o \in CallbackOutcomes(contentScript, l.username) :
            LET r == Callback(contentScript, contextValid, elements, l, o)
            IN /\ elements' = r.els
               /\ lookups' = lookups (-) SetToBag({l})
               /\ pageStep' = PageStep("callback", l.el, OutcomeNote(o), r.threw)
               /\ UNCHANGED << callVars, backgroundVars, contentScript, contextValid,
                               pageContainer, chatContainer, chatObserver,
                               observerReconnectTimer, pendingTimers, activeObservers >>

\* The extension is reloaded or removed while the page stays open:
\* chrome.runtime.id is undefined from now on.
InvalidateContext ==
    /\ contextValid
    /\ contextValid' = FALSE
    /\ pageStep' = PageStep("invalidate", 0, "", FALSE)
    /\ UNCHANGED << callVars, backgroundVars, contentScript, elements, lookups,
                    pageContainer, chatContainer, chatObserver,
                    observerReconnectTimer, pendingTimers, activeObservers >>

\* The page takes a username element out of the document, or puts it back.
ElementMoves ==
    \E e \in DOMAIN elements :
        /\ elements' = [ elements EXCEPT ![e].attached = ~@ ]
        /\ pageStep' = PageStep("page", 0, "", FALSE)
        /\ UNCHANGED << callVars, backgroundVars, contentScript, lookups, contextValid,
                        pageContainer, chatContainer, chatObserver,
                        observerReconnectTimer, pendingTimers, activeObservers >>

\* Mutant: the SPA script without its body observer.
ContainerChanges_NoBodyObserver ==
    \E c \in { None } \cup { Some(k) : k \in Containers } :
        /\ c # pageContainer
        /\ pageContainer' = c
        /\ pageStep' = PageStep("page", 0, "", FALSE)
        /\ UNCHANGED << callVars, backgroundVars, contentScript, elements, lookups,
                        contextValid, chatContainer, chatObserver,
                        observerReconnectTimer, pendingTimers, activeObservers >>

\* The page removes its chat container or puts another one in.  The body
\* observer of the SPA script sees the removal of the observed container or
\* the addition of a container and sets the timer.
ContainerChanges ==
    \E c \in { None } \cup { Some(k) : k \in Containers } :
        /\ c # pageContainer
        /\ pageContainer' = c
        /\ observerReconnectTimer' =
              IF contentScript = "spa"
                 /\ \/ ~IsNone(c)
                    \/ ~IsNone(chatContainer) /\ chatContainer = pageContainer
              THEN TRUE
              ELSE observerReconnectTimer
        /\ pendingTimers' =
              IF contentScript = "spa"
                 /\ \/ ~IsNone(c)
                    \/ ~IsNone(chatContainer) /\ chatContainer = pageContainer
              THEN setTimeout(clearTimeout(pendingTimers, observerReconnectTimer))
              ELSE pendingTimers
        /\ pageStep' = PageStep("page", 0, "", FALSE)
        /\ UNCHANGED << callVars, backgroundVars, contentScript, elements, lookups,
                        contextValid, chatContainer, chatObserver,
                        activeObservers >>

\* Mutant: initializeObserver without its test of chrome.runtime.id.
initializeObserver_NoContextTest(valid, found) ==
    [ chatContainer |-> found, chatObserver |-> found, timer |-> IsNone(found),
      ran |-> TRUE ]

\* initializeObserver() of the SPA script, given the container
\* document.querySelector finds: the script's chatContainer and the
\* observed container it leaves, and whether it set the retry timer.
initializeObserver(valid, found) ==
    IF ~valid
    THEN [ chatContainer |-> chatContainer, chatObserver |-> chatObserver,
           timer |-> FALSE, ran |-> FALSE ]
    ELSE [ chatContainer |-> found, chatObserver |-> found,
           timer |-> IsNone(found), ran |-> TRUE ]

\* The pending timer fires: initializeObserver() in the SPA script,
\* startObserver() in the others.
TimerFires ==
    /\ observerReconnectTimer
    /\ LET r == IF contentScript = "spa"
                THEN initializeObserver(contextValid, pageContainer)
                ELSE [ chatContainer |-> pageContainer,
                       chatObserver |-> pageContainer,
                       timer |-> IsNone(pageContainer), ran |-> TRUE ]
       IN /\ chatContainer' = r.chatContainer
          /\ chatObserver' = r.chatObserver
          /\ observerReconnectTimer' = r.timer
          /\ pendingTimers' =
                IF r.timer THEN setTimeout(clearTimeout(pendingTimers - 1, FALSE))
                ELSE pendingTimers - 1
          /\ activeObservers' =
                IF ~r.ran THEN activeObservers
                ELSE observe(disconnect(activeObservers, chatObserver),
                             r.chatObserver)
          /\ pageStep' = PageStep(IF r.ran THEN "initializeObserver"
                                  ELSE "initializeObserver_skipped", 0, "", FALSE)
    /\ UNCHANGED << callVars, backgroundVars, contentScript, elements, lookups,
                    contextValid, pageContainer >>

PageNext ==
    \/ ChatMutations
    \/ LookupCallback
    \/ InvalidateContext
    \/ ElementMoves

PageSpec == PageInit /\ [][PageNext]_vars

SpaNext ==
    \/ ChatMutations
    \/ LookupCallback
    \/ InvalidateContext
    \/ ElementMoves
    \/ ContainerChanges
    \/ TimerFires

SpaSpec == SpaInit /\ [][SpaNext]_vars

\* The SPA page with the browser's scheduling: a pending timer fires.  (The
\* body observer's callback runs in the step of the mutation it reports.)
SpaFairSpec == SpaSpec /\ WF_vars(TimerFires)

\* The SPA page with message delivery: the callback of every getElo message
\* sent for an element is invoked.
SpaDeliverySpec ==
    SpaSpec /\ \A e \in SpaElements : WF_vars(LookupCallback /\ pageStep'.el = e)

\* -------------------------------------------------------------------------
\* parseCsvData on its own
\* -------------------------------------------------------------------------

\* Most data rows of a CSV file handed to parseCsvData.
MaxRows == 2

\* Header rows: as the workflow writes it; differing from that in letter
\* case only; five columns in another order; the rating column missing.
CsvHeaders ==
    { << << "u","u","i","d" >>,
         << "t","w","i","t","c","h","_","n","a","m","e" >>,
         << "n","i","c","k","n","a","m","e" >>,
         << "e","l","o","R","a","t","e" >> >>,
      << << "U","U","I","D" >>,
         << "T","w","i","t","c","h","_","N","a","m","e" >>,
         << "N","i","c","k","N","a","m","e" >>,
         << "e","l","o","r","a","t","e" >> >>,
      << << "e","l","o","R","a","t","e" >>,
         << "x" >>,
         << "t","w","i","t","c","h","_","n","a","m","e" >>,
         << "u","u","i","d" >>,
         << "n","i","c","k","n","a","m","e" >> >>,
      << << "u","u","i","d" >>,
         << "t","w","i","t","c","h","_","n","a","m","e" >>,
         << "n","i","c","k","n","a","m","e" >> >> }

\* Data rows, as cells: rated player; the same username in another case with
\* neither nickname nor rating; username in white space, rating not a
\* number; rating that starts with digits; no identifier; blank username;
\* three cells; five cells; negative rating; an empty line.
CsvRows ==
    { << << "u","1" >>, << "A","l" >>, << "N","i","k" >>, << "1","5","5","0" >> >>,
      << << "u","2" >>, << "A","L" >>, << >>, << >> >>,
      << << "u","3" >>, << " ","b","o"," " >>, << "N","i","k" >>, << "a","b","c" >> >>,
      << << "u","4" >>, << "B","o" >>, << "N","i","k" >>, << "1","2","a" >> >>,
      << << >>, << "A","l" >>, << "N","i","k" >>, << "9","0","0" >> >>,
      << << "u","6" >>, << " " >>, << "N","i","k" >>, << "9","0","0" >> >>,
      << << "u","7" >>, << "C","y" >>, << "N","i","k" >> >>,
      << << "u","8" >>, << "C","y" >>, << "N","i","k" >>, << "9","0","0" >>, << "x" >> >>,
      << << "u","9" >>, << "C","y" >>, << " " >>, << "-","5" >> >>,
      << << >> >> }

CsvFiles ==
    { [ header |-> h, rows |-> r ] :
        h \in CsvHeaders, r \in UNION { [1..n -> CsvRows] : n \in 0..MaxRows } }

\* The text of a file: its lines joined by line feeds, the cells of a line
\* by commas.
TextOf(file) ==
    CsvText(<< CsvLine(file.header) >>
            \o [ i \in 1..Len(file.rows) |-> CsvLine(file.rows[i]) ])

ParseInit ==
    /\ NoPage
    /\ variant \in Variants
    /\ twitchUserDataMap = EmptyMap
    /\ isDataLoaded = FALSE
    /\ isFetching = FALSE
    /\ stored = None
    /\ alarm = FALSE
    /\ tasks = EmptyBag
    /\ lastStep = Step("Init", "script", "", "", None, None, None)
    /\ atRefreshStart = None
    /\ csv \in CsvFiles
    /\ parseCall = NotCalled
    /\ eloArg = None
    /\ rankCall = NotCalled
    /\ eloCall = NotCalled
    /\ badge = None

\* parseCsvData(csvText) is called with the text of the file and returns.
ParseCsvData ==
    /\ ~parseCall.called
    /\ parseCall' = Returned(parseCsvData(variant, TextOf(csv)))
    /\ UNCHANGED << backgroundVars, pageVars, csv, eloArg, rankCall, eloCall, badge >>

ParseNext == ParseCsvData

ParseSpec == ParseInit /\ [][ParseNext]_vars

\* -------------------------------------------------------------------------
\* getRankInfo
\* -------------------------------------------------------------------------

\* A JavaScript value handed to getRankInfo: null, undefined, NaN, the
\* number `value`, or a string (the decimal text of `value`).
JsValue(kind, value) == [ kind |-> kind, value |-> value ]

JsNull == JsValue("null", 0)

JsUndefined == JsValue("undefined", 0)

JsNaN == JsValue("NaN", 0)

JsNumber(n) == JsValue("number", n)

JsString(n) == JsValue("string", n)

\* The typeof operator.
typeof(v) ==
    CASE v.kind = "null" -> "object"
      [] v.kind = "undefined" -> "undefined"
      [] v.kind = "string" -> "string"
      [] v.kind \in { "number", "NaN" } -> "number"

\* v >= n for a v whose typeof is "number": false for NaN.
GreaterOrEqual(v, n) == v.kind = "number" /\ v.value >= n

GreaterThan(v, n) == v.kind = "number" /\ v.value > n

RankInfo(rank, division, bgColor, textColor) ==
    [ rank |-> rank, division |-> division, bgColor |-> bgColor,
      textColor |-> textColor ]

defaultRank == RankInfo("Unrated", None, "#AAAAAA", "#000000")

\* Mutant: Netherite only above 2000.
getRankInfoSpa_NetheriteAbove(elo) ==
    IF elo = JsNull \/ typeof(elo) # "number" THEN defaultRank
    ELSE IF GreaterThan(elo, 2000) THEN RankInfo("Netherite", None, "#602A2A", "#FFFFFF")
    ELSE IF GreaterOrEqual(elo, 1800) THEN RankInfo("Diamond", Some(3), "#4AEED8", "#000000")
    ELSE IF GreaterOrEqual(elo, 1650) THEN RankInfo("Diamond", Some(2), "#4AEED8", "#000000")
    ELSE IF GreaterOrEqual(elo, 1500) THEN RankInfo("Diamond", Some(1), "#4AEED8", "#000000")
    ELSE IF GreaterOrEqual(elo, 1400) THEN RankInfo("Emerald", Some(3), "#00B837", "#FFFFFF")
    ELSE IF GreaterOrEqual(elo, 1300) THEN RankInfo("Emerald", Some(2), "#00B837", "#FFFFFF")
    ELSE IF GreaterOrEqual(elo, 1200) THEN RankInfo("Emerald", Some(1), "#00B837", "#FFFFFF")
    ELSE IF GreaterOrEqual(elo, 1100) THEN RankInfo("Gold", Some(3), "#F9A602", "#000000")
    ELSE IF GreaterOrEqual(elo, 1000) THEN RankInfo("Gold", Some(2), "#F9A602", "#000000")
    ELSE IF GreaterOrEqual(elo, 900) THEN RankInfo("Gold", Some(1), "#F9A602", "#000000")
    ELSE IF GreaterOrEqual(elo, 800) THEN RankInfo("Iron", Some(3), "#E0E0E0", "#000000")
    ELSE IF GreaterOrEqual(elo, 700) THEN RankInfo("Iron", Some(2), "#E0E0E0", "#000000")
    ELSE IF GreaterOrEqual(elo, 600) THEN RankInfo("Iron", Some(1), "#E0E0E0", "#000000")
    ELSE IF GreaterOrEqual(elo, 500) THEN RankInfo("Coal", Some(3), "#555555", "#FFFFFF")
    ELSE IF GreaterOrEqual(elo, 400) THEN RankInfo("Coal", Some(2), "#555555", "#FFFFFF")
    ELSE RankInfo("Coal", Some(1), "#555555", "#FFFFFF")

\* getRankInfo of src/unnamed/part_001: a chain of if ... return.
getRankInfoSpa(elo) ==
    IF elo = JsNull \/ typeof(elo) # "number" THEN defaultRank
    ELSE IF GreaterOrEqual(elo, 2000) THEN RankInfo("Netherite", None, "#602A2A", "#FFFFFF")
    ELSE IF GreaterOrEqual(elo, 1800) THEN RankInfo("Diamond", Some(3), "#4AEED8", "#000000")
    ELSE IF GreaterOrEqual(elo, 1650) THEN RankInfo("Diamond", Some(2), "#4AEED8", "#000000")
    ELSE IF GreaterOrEqual(elo, 1500) THEN RankInfo("Diamond", Some(1), "#4AEED8", "#000000")
    ELSE IF GreaterOrEqual(elo, 1400) THEN RankInfo("Emerald", Some(3), "#00B837", "#FFFFFF")
    ELSE IF GreaterOrEqual(elo, 1300) THEN RankInfo("Emerald", Some(2), "#00B837", "#FFFFFF")
    ELSE IF GreaterOrEqual(elo, 1200) THEN RankInfo("Emerald", Some(1), "#00B837", "#FFFFFF")
    ELSE IF GreaterOrEqual(elo, 1100) THEN RankInfo("Gold", Some(3), "#F9A602", "#000000")
    ELSE IF GreaterOrEqual(elo, 1000) THEN RankInfo("Gold", Some(2), "#F9A602", "#000000")
    ELSE IF GreaterOrEqual(elo, 900) THEN RankInfo("Gold", Some(1), "#F9A602", "#000000")
    ELSE IF GreaterOrEqual(elo, 800) THEN RankInfo("Iron", Some(3), "#E0E0E0", "#000000")
    ELSE IF GreaterOrEqual(elo, 700) THEN RankInfo("Iron", Some(2), "#E0E0E0", "#000000")
    ELSE IF GreaterOrEqual(elo, 600) THEN RankInfo("Iron", Some(1), "#E0E0E0", "#000000")
    ELSE IF GreaterOrEqual(elo, 500) THEN RankInfo("Coal", Some(3), "#555555", "#FFFFFF")
    ELSE IF GreaterOrEqual(elo, 400) THEN RankInfo("Coal", Some(2), "#555555", "#FFFFFF")
    ELSE RankInfo("Coal", Some(1), "#555555", "#FFFFFF")

\* getRankInfo of src/unnamed/part_002: a chain of if ... else if.
getRankInfoHideNA(elo) ==
    IF elo = JsNull \/ typeof(elo) # "number" THEN defaultRank
    ELSE IF GreaterOrEqual(elo, 2000) THEN RankInfo("Netherite", None, "#602A2A", "#FFFFFF")
    ELSE IF GreaterOrEqual(elo, 1800) THEN RankInfo("Diamond", Some(3), "#4AEED8", "#000000")
    ELSE IF GreaterOrEqual(elo, 1650) THEN RankInfo("Diamond", Some(2), "#4AEED8", "#000000")
    ELSE IF GreaterOrEqual(elo, 1500) THEN RankInfo("Diamond", Some(1), "#4AEED8", "#000000")
    ELSE IF GreaterOrEqual(elo, 1400) THEN RankInfo("Emerald", Some(3), "#00B837", "#FFFFFF")
    ELSE IF GreaterOrEqual(elo, 1300) THEN RankInfo("Emerald", Some(2), "#00B837", "#FFFFFF")
    ELSE IF GreaterOrEqual(elo, 1200) THEN RankInfo("Emerald", Some(1), "#00B837", "#FFFFFF")
    ELSE IF GreaterOrEqual(elo, 1100) THEN RankInfo("Gold", Some(3), "#F9A602", "#000000")
    ELSE IF GreaterOrEqual(elo, 1000) THEN RankInfo("Gold", Some(2), "#F9A602", "#000000")
    ELSE IF GreaterOrEqual(elo, 900) THEN RankInfo("Gold", Some(1), "#F9A602", "#000000")
    ELSE IF GreaterOrEqual(elo, 800) THEN RankInfo("Iron", Some(3), "#E0E0E0", "#000000")
    ELSE IF GreaterOrEqual(elo, 700) THEN RankInfo("Iron", Some(2), "#E0E0E0", "#000000")
    ELSE IF GreaterOrEqual(elo, 600) THEN RankInfo("Iron", Some(1), "#E0E0E0", "#000000")
    ELSE IF GreaterOrEqual(elo, 500) THEN RankInfo("Coal", Some(3), "#555555", "#FFFFFF")
    ELSE IF GreaterOrEqual(elo, 400) THEN RankInfo("Coal", Some(2), "#555555", "#FFFFFF")
    ELSE RankInfo("Coal", Some(1), "#555555", "#FFFFFF")

\* getRankInfo of src/mcsr_app_viewer/content.js.
getRankInfoViewer(elo) ==
    IF elo = JsNull \/ typeof(elo) # "number" THEN defaultRank
    ELSE IF GreaterOrEqual(elo, 2000) THEN RankInfo("Netherite", None, "#602A2A", "#FFFFFF")
    ELSE IF GreaterOrEqual(elo, 1800) THEN RankInfo("Diamond", Some(3), "#4AEED8", "#000000")
    ELSE IF GreaterOrEqual(elo, 1650) THEN RankInfo("Diamond", Some(2), "#4AEED8", "#000000")
    ELSE IF GreaterOrEqual(elo, 1500) THEN RankInfo("Diamond", Some(1), "#4AEED8", "#000000")
    ELSE IF GreaterOrEqual(elo, 1400) THEN RankInfo("Emerald", Some(3), "#00B837", "#FFFFFF")
    ELSE IF GreaterOrEqual(elo, 1300) THEN RankInfo("Emerald", Some(2), "#00B837", "#FFFFFF")
    ELSE IF GreaterOrEqual(elo, 1200) THEN RankInfo("Emerald", Some(1), "#00B837", "#FFFFFF")
    ELSE IF GreaterOrEqual(elo, 1100) THEN RankInfo("Gold", Some(3), "#F9A602", "#000000")
    ELSE IF GreaterOrEqual(elo, 1000) THEN RankInfo("Gold", Some(2), "#F9A602", "#000000")
    ELSE IF GreaterOrEqual(elo, 900) THEN RankInfo("Gold", Some(1), "#F9A602", "#000000")
    ELSE IF GreaterOrEqual(elo, 800) THEN RankInfo("Iron", Some(3), "#E0E0E0", "#000000")
    ELSE IF GreaterOrEqual(elo, 700) THEN RankInfo("Iron", Some(2), "#E0E0E0", "#000000")
    ELSE IF GreaterOrEqual(elo, 600) THEN RankInfo("Iron", Some(1), "#E0E0E0", "#000000")
    ELSE IF GreaterOrEqual(elo, 500) THEN RankInfo("Coal", Some(3), "#555555", "#FFFFFF")
    ELSE IF GreaterOrEqual(elo, 400) THEN RankInfo("Coal", Some(2), "#555555", "#FFFFFF")
    ELSE RankInfo("Coal", Some(1), "#555555", "#FFFFFF")

\* getRankInfo as the content script `script` defines it.
getRankInfo(script, elo) ==
    CASE script = "spa" -> getRankInfoSpa(elo)
      [] script = "hideNA" -> getRankInfoHideNA(elo)
      [] script = "viewer" -> getRankInfoViewer(elo)

\* The content scripts that define getRankInfo (src/content.js does not).
RankScripts == { "viewer", "hideNA", "spa" }

\* The numbers tried lie in -MaxBelowZero..MaxElo.
MaxElo == 2001

MaxBelowZero == 2

EloArgs ==
    { JsNull, JsUndefined, JsNaN }
        \cup { JsNumber(n) : n \in (0 - MaxBelowZero)..MaxElo }
        \cup { JsString(n) : n \in { 0, 1500 } }

RankInit ==
    /\ contentScript \in RankScripts
    /\ NoBackground
    /\ elements = << >>
    /\ lookups = EmptyBag
    /\ contextValid = TRUE
    /\ pageContainer = None
    /\ chatContainer = None
    /\ chatObserver = None
    /\ observerReconnectTimer = FALSE
    /\ pendingTimers = 0
    /\ activeObservers = 0
    /\ pageStep = PageStep("none", 0, "", FALSE)
    /\ csv = << >>
    /\ parseCall = NotCalled
    /\ eloArg \in EloArgs
    /\ rankCall = NotCalled
    /\ eloCall = NotCalled
    /\ badge = None

\* getRankInfo(elo) is called and returns.
GetRankInfo ==
    /\ ~rankCall.called
    /\ rankCall' = Returned(getRankInfo(contentScript, eloArg))
    /\ UNCHANGED << backgroundVars, pageVars, csv, parseCall, eloArg, eloCall, badge >>

RankNext == GetRankInfo

RankSpec == RankInit /\ [][RankNext]_vars

\* -------------------------------------------------------------------------
\* From the CSV file to the badge
\* -------------------------------------------------------------------------

\* The decimal text of a number, as a template literal `${n}` writes it.
RECURSIVE DigitsOf(_)
DigitsOf(n) ==
    IF n < 10 THEN << Digits[n + 1] >>
    ELSE DigitsOf(n \div 10) \o << Digits[(n % 10) + 1] >>

NumberToString(n) == IF n < 0 THEN << "-" >> \o DigitsOf(0 - n) ELSE DigitsOf(n)

\* Mutant: every script writing the nickname into the badge text.
Badge_WithNickname(script, eloData) ==
    LET elo == eloData.elo
        nickname == IF IsNone(eloData.nickname) THEN << >> ELSE Val(eloData.nickname)
        info == getRankInfo(script, IF IsNone(elo) THEN JsNull ELSE JsNumber(Val(elo)))
        displayElo == IF IsNone(elo) THEN << "N","/","A" >> ELSE NumberToString(Val(elo))
        numerals == << << "I" >>, << "I","I" >>, << "I","I","I" >> >>
    IN [ textContent |->
             IF nickname # << >>
             THEN displayElo \o << " ", "(" >> \o nickname \o << ")" >>
             ELSE displayElo,
         backgroundColor |-> info.bgColor,
         color |-> info.textColor,
         rank |-> info.rank,
         division |-> IF IsNone(info.division) THEN << >>
                      ELSE numerals[Val(info.division)],
         clickable |-> nickname # << >> ]

\* The badge addEloDisplay creates for eloData in the scripts with
\* getRankInfo: its text, its colours, the rank and the division numeral of
\* its title, and whether it opens the stats page on a click.
\* mcsr_app_viewer/content.js appends the nickname to the text.
Badge(script, eloData) ==
    LET elo == eloData.elo
        nickname == IF IsNone(eloData.nickname) THEN << >> ELSE Val(eloData.nickname)
        info == getRankInfo(script, IF IsNone(elo) THEN JsNull ELSE JsNumber(Val(elo)))
        displayElo == IF IsNone(elo) THEN << "N","/","A" >> ELSE NumberToString(Val(elo))
        numerals == << << "I" >>, << "I","I" >>, << "I","I","I" >> >>
    IN [ textContent |->
             IF script = "viewer" /\ nickname # << >>
             THEN displayElo \o << " ", "(" >> \o nickname \o << ")" >>
             ELSE displayElo,
         backgroundColor |-> info.bgColor,
         color |-> info.textColor,
         rank |-> info.rank,
         division |-> IF IsNone(info.division) THEN << >>
                      ELSE numerals[Val(info.division)],
         clickable |-> nickname # << >> ]

\* One player, as the data-update workflow writes the row.
StreamerRow ==
    << << "a","b","c","-","1","2","3" >>,
       << "S","t","r","e","a","m","e","r","O","n","e" >>,
       << "S","t","r","e","a","m","e","r","_","O","n","e" >>,
       << "1","5","5","0" >> >>

\* Files under the workflow's header with rows from CsvRows and StreamerRow.
StreamerFiles ==
    { [ header |-> << << "u","u","i","d" >>,
                      << "t","w","i","t","c","h","_","n","a","m","e" >>,
                      << "n","i","c","k","n","a","m","e" >>,
                      << "e","l","o","R","a","t","e" >> >>,
        rows |-> r ] :
        r \in UNION { [1..n -> CsvRows \cup { StreamerRow }] : n \in 1..MaxRows } }

\* request.username of the getElo messages sent.
StreamerNames ==
    { None,
      Some(<< "a","l" >>),
      Some(<< "S","T","R","E","A","M","E","R","O","N","E" >>) }

EndToEndInit ==
    /\ contentScript \in RankScripts
    /\ NoBackground
    /\ elements = [ e \in { 1 } |-> Element(TRUE, FALSE, FALSE, 0) ]
    /\ lookups = EmptyBag
    /\ contextValid = TRUE
    /\ pageContainer = Some(1)
    /\ chatContainer = Some(1)
    /\ chatObserver = Some(1)
    /\ observerReconnectTimer = FALSE
    /\ pendingTimers = 0
    /\ activeObservers = 1
    /\ pageStep = PageStep("none", 0, "", FALSE)
    /\ csv \in StreamerFiles
    /\ parseCall = NotCalled
    /\ eloArg = None
    /\ rankCall = NotCalled
    /\ eloCall = NotCalled
    /\ badge = None

\* The refresh that fetched the file succeeds: parsedMap has entries, the
\* snapshot is written and the map is put in memory.
RefreshCommits ==
    /\ parseCall.called
    /\ ~isDataLoaded
    /\ ~IsNone(parseCall.value)
    /\ Keys(Val(parseCall.value)) # {}
    /\ stored' = parseCall.value
    /\ twitchUserDataMap' = Val(parseCall.value)
    /\ isDataLoaded' = TRUE
    /\ lastStep' = Step("StorageSetDone", "onAlarm", "", "committed", None, None, None)
    /\ UNCHANGED << callVars, pageVars, variant, isFetching, alarm, tasks,
                    atRefreshStart >>

\* After the refresh a getElo message arrives and handleEloRequest answers.
HandleEloRequest ==
    \E username \in StreamerNames :
        /\ isDataLoaded
        /\ ~eloCall.called
        /\ eloCall' = Returned([ username |-> username,
                                 response |-> handleEloRequest(variant, username,
                                                  isDataLoaded, twitchUserDataMap) ])
        /\ UNCHANGED << backgroundVars, pageVars, csv, parseCall, eloArg, rankCall,
                        badge >>

\* The callback of the getElo message runs for the element the name was
\* read from; `badge` is the badge it has inserted, if it has.
RenderResponse ==
    /\ eloCall.called
    /\ pageStep.op = "none"
    /\ LET o == Outcome(FALSE, eloCall.value.response)
           r == Callback(contentScript, contextValid, elements,
                         Lookup(1, eloCall.value.username, TRUE), o)
       IN /\ elements' = r.els
          /\ badge' = IF r.els[1].badges > elements[1].badges
                      THEN Some(Badge(contentScript, Val(eloCall.value.response)))
                      ELSE None
          /\ pageStep' = PageStep("callback", 1, OutcomeNote(o), r.threw)
    /\ UNCHANGED << backgroundVars, contentScript, lookups, contextValid,
                    pageContainer, chatContainer, chatObserver,
                    observerReconnectTimer, pendingTimers, activeObservers, csv, parseCall, eloArg, rankCall,
                    eloCall >>

EndToEndNext ==
    \/ ParseCsvData
    \/ RefreshCommits
    \/ HandleEloRequest
    \/ RenderResponse

EndToEndSpec == EndToEndInit /\ [][EndToEndNext]_vars

\* -------------------------------------------------------------------------
\* Properties
\* -------------------------------------------------------------------------

\* The step just taken was a refresh request turned away because one is in
\* flight: fetchAndStoreCsvData returned at its guard in the alarm listener,
\* or the message listener answered "Fetch already in progress.".
Rejected(step) ==
    \/ step.op = "OnAlarm" /\ step.refresh = "skipped"
    \/ step.op = "ForceCsvUpdate" /\ step.note = "busy"

\* C1: at most one fetchAndStoreCsvData is in flight in every reachable
\* state, and while isFetching is true no step starts a refresh or issues a
\* fetch: the request is turned away in the step that makes it.
C1_AtMostOneRefresh ==
    /\ [](RefreshCount <= 1 /\ (isFetching <=> RefreshCount = 1))
    /\ [][ isFetching =>
             /\ FetchCount' <= FetchCount
             /\ lastStep'.refresh # "started" ]_vars

\* C1 witness: the alarm fired while a refresh was in flight and its call
\* returned at the guard.
C1_Witness ==
    /\ lastStep.op = "OnAlarm"
    /\ lastStep.refresh = "skipped"
    /\ RefreshCount = 1

\* C2: a step that turns a refresh request away leaves isFetching true and
\* leaves the map, the loaded flag, the snapshot and every suspended
\* invocation (the refresh in flight among them) exactly as they were.
C2_RejectedAltersNothing ==
    [][ Rejected(lastStep') =>
          /\ isFetching /\ isFetching'
          /\ UNCHANGED << twitchUserDataMap, isDataLoaded, stored, tasks,
                          atRefreshStart >> ]_vars

\* C2 witness: a forceCsvUpdate was answered "Fetch already in progress."
\* while the refresh in flight is still awaiting its fetch.
C2_Witness ==
    /\ lastStep.op = "ForceCsvUpdate"
    /\ lastStep.note = "busy"
    /\ isFetching
    /\ FetchCount = 1

\* C3 (as claimed): when a refresh returns in failure, the map and the
\* snapshot are what they were when it passed its guard.
C3_FailedRefreshLeavesCache ==
    [][ lastStep'.refresh = "failed" /\ ~IsNone(atRefreshStart) =>
          /\ twitchUserDataMap' = Val(atRefreshStart).map
          /\ stored' = Val(atRefreshStart).stored ]_vars

\* C3 (amended): when a refresh returns in failure, the snapshot is what it
\* was when the refresh passed its guard, the map is what it was then or is
\* the snapshot (read back by a storage load), and the call returns
\* normally: its caller runs on and a forceCsvUpdate is answered
\* success = false.
C3_FailedRefreshKeepsOrReloads ==
    [][ lastStep'.refresh = "failed" /\ ~IsNone(atRefreshStart) =>
          /\ stored' = Val(atRefreshStart).stored
          /\ \/ twitchUserDataMap' = Val(atRefreshStart).map
             \/ ~IsNone(stored') /\ twitchUserDataMap' = Val(stored')
          /\ ~isFetching'
          /\ lastStep'.kind = "forceCsvUpdate" =>
                lastStep'.updateResponse = Some(UpdateResponse(FALSE, "")) ]_vars

\* C3 witness: a refresh that started with nothing loaded failed, and its
\* fallback load read the snapshot into memory.
C3_Witness ==
    /\ lastStep.op = "FallbackLoadDone"
    /\ lastStep.refresh = "failed"
    /\ isDataLoaded
    /\ twitchUserDataMap # EmptyMap

\* The usernames a lookup answers with a hit, read against a flag and map.
Hit(username, loaded, dataMap) ==
    LET r == handleEloRequest(variant, username, loaded, dataMap)
    IN ~IsNone(r) /\ Val(r).status = "storage_hit"

\* C4 (as claimed): the map and the snapshot are never replaced by an empty
\* map, and when a refresh whose parse yielded no entry returns, every
\* username that was a hit when it started is answered the same.
C4_EmptyParseKeepsHits ==
    [][ /\ twitchUserDataMap # EmptyMap => twitchUserDataMap' # EmptyMap
        /\ ~IsNone(stored) => ~IsNone(stored') /\ Keys(Val(stored')) # {}
        /\ ( /\ lastStep'.refresh = "failed"
             /\ lastStep'.note \in { "parse_empty", "parse_null" }
             /\ ~IsNone(atRefreshStart) ) =>
              \A u \in LookupNames :
                  Hit(u, Val(atRefreshStart).loaded, Val(atRefreshStart).map) =>
                      handleEloRequest(variant, u, isDataLoaded', twitchUserDataMap')
                          = handleEloRequest(variant, u, Val(atRefreshStart).loaded,
                                             Val(atRefreshStart).map) ]_vars

\* C5: the map changes only to the map the snapshot already holds, and the
\* loaded flag is raised only with the map equal to the snapshot: nothing
\* is in memory that storage does not hold first.
C5_PersistBeforeAdopt ==
    [][ /\ twitchUserDataMap' # twitchUserDataMap =>
              ~IsNone(stored) /\ twitchUserDataMap' = Val(stored)
        /\ (isDataLoaded' /\ ~isDataLoaded) =>
              ~IsNone(stored) /\ twitchUserDataMap' = Val(stored) ]_vars

\* C5 witness: a refresh committed a map other than the one the worker
\* started with: it is in storage and in memory, and the flag is set.
C5_Witness ==
    /\ lastStep.refresh = "committed"
    /\ isDataLoaded
    /\ twitchUserDataMap = Val(stored)
    /\ Cardinality(Keys(twitchUserDataMap)) = 2

\* C6 (as claimed): once the map holds data, no lookup is answered
\* data_not_loaded, and a username whose key is in the map is answered with
\* its record.
C6_StaleDataServed ==
    ( /\ lastStep.kind = "getElo"
      /\ ~IsNone(lastStep.eloResponse)
      /\ twitchUserDataMap # EmptyMap ) =>
        /\ Val(lastStep.eloResponse).status # "data_not_loaded"
        /\ ( /\ ~IsNone(lastStep.username)
             /\ toLowerCase(Val(lastStep.username)) \in Keys(twitchUserDataMap) ) =>
              lastStep.eloResponse =
                  handleEloRequest(variant, lastStep.username, TRUE,
                                   twitchUserDataMap)

\* C7 (as claimed): only a forceCsvUpdate request starts a fetch.
C7_FetchOnlyOnUserRequest ==
    lastStep.refresh = "started" => lastStep.kind = "forceCsvUpdate"

\* C8 (as claimed): a getElo with an empty or absent username is answered
\* invalid_username in the step that receives it, with no storage load.
C8_InvalidUsernameAtOnce ==
    ( /\ lastStep.kind = "getElo"
      /\ (IsNone(lastStep.username) \/ Val(lastStep.username) = << >>) ) =>
        /\ lastStep.op = "GetElo"
        /\ lastStep.eloResponse =
              Some(EloResponse(None, None, None, "invalid_username"))

\* C9: a getElo is answered data_not_loaded only by the completion of the
\* storage load made for it, and only when that read failed or found no
\* snapshot; when the read returned a snapshot the answer is the lookup in
\* that snapshot.
C9_NotLoadedOnlyAfterFailedLoad ==
    /\ ( /\ ~IsNone(lastStep.eloResponse)
         /\ Val(lastStep.eloResponse).status = "data_not_loaded" ) =>
          /\ lastStep.op = "StorageGetDone"
          /\ lastStep.kind = "getElo"
          /\ lastStep.note \in { "get_error", "get_absent" }
    /\ ( /\ lastStep.op = "StorageGetDone"
         /\ lastStep.kind = "getElo"
         /\ lastStep.note = "get_ok" ) =>
          /\ ~IsNone(stored)
          /\ lastStep.eloResponse =
                handleEloRequest(variant, lastStep.username, TRUE, Val(stored))

\* C9 witness: a getElo that arrived with nothing loaded was answered with
\* a hit from the snapshot its load read.
C9_Witness ==
    /\ lastStep.op = "StorageGetDone"
    /\ lastStep.kind = "getElo"
    /\ lastStep.note = "get_ok"
    /\ ~IsNone(lastStep.eloResponse)
    /\ Val(lastStep.eloResponse).status = "storage_hit"

toUpperCaseChar(c) ==
    IF \E i \in 1..26 : LowerCaseLetters[i] = c
    THEN UpperCaseLetters[CHOOSE i \in 1..26 : LowerCaseLetters[i] = c]
    ELSE c

\* Every way of casing the letters of s.
Casings(s) ==
    { w \in [ 1..Len(s) -> { toLowerCaseChar(s[i]) : i \in 1..Len(s) }
                            \cup { toUpperCaseChar(s[i]) : i \in 1..Len(s) } ] :
        toLowerCase(w) = toLowerCase(s) }

\* C10: the answer a getElo was just given for a username is the answer
\* every other casing of that username gets in the same state, and a name
\* whose lowercase form is a key of the loaded map is answered with that
\* key's record and status storage_hit.
C10_LookupCaseInsensitive ==
    ( /\ lastStep.kind = "getElo"
      /\ ~IsNone(lastStep.eloResponse)
      /\ ~IsNone(lastStep.username) ) =>
        \A w \in Casings(Val(lastStep.username)) :
            /\ handleEloRequest(variant, Some(w), isDataLoaded, twitchUserDataMap)
                  = lastStep.eloResponse
            /\ (isDataLoaded /\ toLowerCase(w) \in Keys(twitchUserDataMap)) =>
                  LET userData == twitchUserDataMap[toLowerCase(w)]
                  IN lastStep.eloResponse =
                        Some(EloResponse(userData.eloRate, userData.nickname,
                                         Some(userData.uuid), "storage_hit"))

\* C10 witness: a mixed-case username was answered with the record stored
\* under its lowercase key.
C10_Witness ==
    /\ lastStep.kind = "getElo"
    /\ lastStep.username = Some(<< "A", "l" >>)
    /\ ~IsNone(lastStep.eloResponse)
    /\ Val(lastStep.eloResponse).status = "storage_hit"
    /\ Val(lastStep.eloResponse).uuid = Some(<< "u", "1" >>)

\* The number of sendResponse calls a step made.
Responses(step) ==
    (IF IsNone(step.eloResponse) THEN 0 ELSE 1)
    + (IF IsNone(step.updateResponse) THEN 0 ELSE 1)

\* The number of message-listener invocations still to answer.
PendingRequests ==
    BagCardinality([ t \in { u \in Running :
                               u.kind \in { "getElo", "forceCsvUpdate" } }
                     |-> CopiesIn(t, tasks) ])

\* C11 (as claimed): every getElo and every forceCsvUpdate request gets
\* exactly one response: the step that receives it either answers it or
\* suspends the listener to answer later, and the step that ends a suspended
\* message listener answers it.
C11_ExactlyOneResponse ==
    /\ lastStep.op \in { "GetElo", "ForceCsvUpdate" } =>
          \/ Responses(lastStep) = 1 /\ lastStep.note # "loading"
                                     /\ lastStep.refresh # "started"
          \/ Responses(lastStep) = 0 /\ PendingRequests >= 1
                /\ (lastStep.note = "loading" \/ lastStep.refresh = "started")
    /\ ( /\ lastStep.kind \in { "getElo", "forceCsvUpdate" }
         /\ \/ lastStep.op = "StorageGetDone"
            \/ lastStep.refresh \in { "failed", "committed" } ) =>
          Responses(lastStep) = 1

\* A step of the forceCsvUpdate listener that returned from
\* fetchAndStoreCsvData after a failure of any kind.
UpdateFailed(step) ==
    step.kind = "forceCsvUpdate" /\ step.refresh = "failed"

\* C12: a forceCsvUpdate is answered success = true exactly by the step in
\* which its own refresh returns after persisting a non-empty map and
\* adopting it; a request made while a refresh is in flight is answered
\* success = false with "Fetch already in progress." and starts no fetch;
\* a refresh that fails answers success = false, with nothing persisted.
C12_SuccessIffCommitted ==
    [][ /\ ( ~IsNone(lastStep'.updateResponse) =>
               ( Val(lastStep'.updateResponse).success <=>
                   /\ lastStep'.kind = "forceCsvUpdate"
                   /\ lastStep'.refresh = "committed"
                   /\ stored' = Some(twitchUserDataMap')
                   /\ Keys(twitchUserDataMap') # {}
                   /\ isDataLoaded' ) )
        /\ ( lastStep'.op = "ForceCsvUpdate" /\ isFetching /\ variant = "viewer" =>
               /\ lastStep'.updateResponse =
                      Some(UpdateResponse(FALSE, "Fetch already in progress."))
               /\ lastStep'.refresh # "started"
               /\ FetchCount' = FetchCount
               /\ tasks' = tasks )
        /\ ( UpdateFailed(lastStep') =>
               /\ lastStep'.updateResponse = Some(UpdateResponse(FALSE, ""))
               /\ ~IsNone(atRefreshStart)
               /\ stored' = Val(atRefreshStart).stored )
        /\ ( lastStep'.kind = "forceCsvUpdate" /\ lastStep'.refresh = "committed" =>
               lastStep'.updateResponse = Some(UpdateResponse(TRUE, "")) ) ]_vars

\* C12 witness: a forceCsvUpdate was answered success = true.
C12_Witness ==
    /\ lastStep.kind = "forceCsvUpdate"
    /\ lastStep.updateResponse = Some(UpdateResponse(TRUE, ""))
    /\ stored = Some(twitchUserDataMap)

\* C13: in every content script a username element never has more than one
\* badge inserted after it, whatever batches reach it and however many
\* callbacks run for it, and no step takes the processed class off an
\* element.
C13_AnnotatedAtMostOnce ==
    /\ [](\A e \in DOMAIN elements : elements[e].badges <= 1)
    /\ [][ \A e \in DOMAIN elements :
              elements[e].processed => elements'[e].processed ]_vars

\* C13 witness: in mcsr_app_viewer/content.js a further callback (a channel
\* error) has run for an element that an earlier callback had annotated;
\* the element has its one badge.
C13_Witness ==
    /\ contentScript = "viewer"
    /\ pageStep.op = "callback"
    /\ pageStep.outcome = "lastError"
    /\ pageStep.el \in DOMAIN elements
    /\ elements[pageStep.el].processed
    /\ elements[pageStep.el].badges = 1

\* C14 (as claimed): in part_001 and part_002 no username element carries
\* both the processing and the processed class.
C14_MarkersExclusive ==
    contentScript \in { "spa", "hideNA" } =>
        \A e \in DOMAIN elements :
            ~(elements[e].processing /\ elements[e].processed)

\* C14 (amended): in part_001 and part_002 an element with a lookup in
\* flight carries processing and not processed, and an element that carries
\* processed has no lookup in flight and still carries processing: the two
\* classes are together on an element exactly when it is annotated.
C14_BothOnlyWhenAnnotated ==
    contentScript \in { "spa", "hideNA" } =>
        \A e \in DOMAIN elements :
            /\ LookupsFor(lookups, e) >= 1 =>
                  elements[e].processing /\ ~elements[e].processed
            /\ elements[e].processed =>
                  elements[e].processing /\ LookupsFor(lookups, e) = 0

\* C14 witness: the callback of the SPA script has just annotated an
\* element, which now carries both classes.
C14_Witness ==
    /\ contentScript = "spa"
    /\ pageStep.op = "callback"
    /\ pageStep.outcome = "storage_hit"
    /\ elements[pageStep.el].processing
    /\ elements[pageStep.el].processed
    /\ elements[pageStep.el].badges = 1

\* What a callback received when the lookup brought nothing to show: a
\* channel error, not found, data not loaded, invalid username, or a hit
\* whose rating is null.
NothingToShow ==
    { "lastError", "not_found_in_map", "not_found_in_local_data",
      "data_not_loaded", "invalid_username", "hit_null_elo" }

\* C15: in the SPA script, after the callback of a lookup that brought
\* nothing to show, the element of that lookup carries neither class and no
\* badge was inserted after it.
C15_FailedLookupReturnsToUnseen ==
    ( /\ contentScript = "spa"
      /\ pageStep.op = "callback"
      /\ pageStep.outcome \in NothingToShow ) =>
        /\ ~elements[pageStep.el].processing
        /\ ~elements[pageStep.el].processed
        /\ elements[pageStep.el].badges = 0
        /\ ~pageStep.threw

\* C15 witness: the callback of the SPA script received a hit with a null
\* rating for the element of the unrated user, with the context valid, and
\* the element is unmarked.
C15_Witness ==
    /\ contentScript = "spa"
    /\ contextValid
    /\ pageStep.op = "callback"
    /\ pageStep.outcome = "hit_null_elo"
    /\ pageStep.el = 3
    /\ ~elements[3].processing
    /\ ~elements[3].processed

\* C16 (as claimed): in src/content.js a callback that receives the status
\* data_not_loaded or not_found_in_map inserts no badge and marks no
\* element processed.
C16_NotLoadedRendersNothing ==
    [][ ( /\ contentScript = "root"
          /\ pageStep'.op = "callback"
          /\ pageStep'.outcome \in { "data_not_loaded", "not_found_in_map" } ) =>
            \A e \in DOMAIN elements :
                /\ elements'[e].badges = elements[e].badges
                /\ elements'[e].processed = elements[e].processed ]_vars

\* C17: in part_001 and part_002 at most one lookup is in flight for a
\* username element in every reachable state, and no run of
\* processNewChatMessages sends a lookup for an element that has one in
\* flight, however often the batch reaches it.
C17_OneLookupPerElement ==
    /\ [](contentScript \in { "spa", "hideNA" } =>
            \A e \in DOMAIN elements : LookupsFor(lookups, e) <= 1)
    /\ [][ (contentScript \in { "spa", "hideNA" }) =>
              \A e \in DOMAIN elements :
                  LookupsFor(lookups, e) >= 1 =>
                      LookupsFor(lookups', e) <= LookupsFor(lookups, e) ]_vars

\* C17 witness: in part_002 a batch reached the same element twice and one
\* lookup is in flight for it.
C17_Witness ==
    /\ contentScript = "hideNA"
    /\ pageStep.op = "processNewChatMessages"
    /\ pageStep.outcome = "repeat"
    /\ LookupsFor(lookups, pageStep.el) = 1
    /\ elements[pageStep.el].processing

\* C18 (as claimed): in mcsr_app_viewer/content.js no getElo is sent for an
\* element while an earlier one for it is in flight, so that at most one is
\* in flight per element.
C18_ViewerOneLookupPerElement ==
    contentScript = "viewer" =>
        \A e \in DOMAIN elements : LookupsFor(lookups, e) <= 1

\* C19: in the SPA script every lookup in flight was sent for an element
\* that already carried the processing class, and every callback finds the
\* element of its lookup with the processing class and without the
\* processed class.
C19_ProcessingBeforeSendAndAtCallback ==
    /\ [](contentScript = "spa" =>
            \A l \in BagToSet(lookups) : l.marked)
    /\ [][ (contentScript = "spa" /\ pageStep'.op = "callback") =>
              /\ LookupsFor(lookups, pageStep'.el) = 1
              /\ elements[pageStep'.el].processing
              /\ ~elements[pageStep'.el].processed ]_vars

\* C19 witness: a callback of the SPA script has annotated its element
\* while the lookup of another element, sent with the class set, is still
\* in flight.
C19_Witness ==
    /\ contentScript = "spa"
    /\ pageStep.op = "callback"
    /\ pageStep.outcome = "storage_hit"
    /\ elements[pageStep.el].processed
    /\ \E l \in BagToSet(lookups) : l.el # pageStep.el /\ l.marked

\* C20: in the SPA script, from a state with the context invalidated, no
\* step sends a lookup, inserts a badge, or runs initializeObserver past its
\* test (the observed container and chatContainer stay as they are); a run
\* of processNewChatMessages leaves every element as it was, a callback
\* leaves its element without the processing and without the processed
\* class, and no handler ends by an exception.
C20_InvalidContextDoesNothing ==
    [][ (contentScript = "spa" /\ ~contextValid) =>
          /\ \A l \in BagToSet(lookups') : CopiesIn(l, lookups') <= CopiesIn(l, lookups)
          /\ \A e \in DOMAIN elements : elements'[e].badges = elements[e].badges
          /\ pageStep'.op # "initializeObserver"
          /\ chatObserver' = chatObserver
          /\ chatContainer' = chatContainer
          /\ ~pageStep'.threw
          /\ pageStep'.op \in { "processNewChatMessages", "reconnect" } =>
                elements' = elements
          /\ pageStep'.op = "callback" =>
                /\ ~elements'[pageStep'.el].processing
                /\ ~elements'[pageStep'.el].processed ]_vars

\* C20 witness: with the context invalidated, the callback of a lookup
\* received a hit and left its element unmarked and without a badge, while
\* the page holds a container other than the observed one.
C20_Witness ==
    /\ contentScript = "spa"
    /\ ~contextValid
    /\ pageStep.op = "callback"
    /\ pageStep.outcome = "storage_hit"
    /\ ~elements[pageStep.el].processing
    /\ ~elements[pageStep.el].processed
    /\ elements[pageStep.el].badges = 0
    /\ pageContainer # chatObserver

\* C21: in the SPA script, if from some time on the context is valid and
\* the document holds one and the same chat container, then from some time
\* on the chat observer observes that container.
C21_ObserverReacquires ==
    \A c \in Containers :
        <>[](contextValid /\ pageContainer = Some(c)) =>
            <>[](chatObserver = Some(c) /\ chatContainer = Some(c))

\* C21 witness: the page replaced its container by another one and
\* initializeObserver has just put the observer on the new one.
C21_Witness ==
    /\ contentScript = "spa"
    /\ contextValid
    /\ pageStep.op = "initializeObserver"
    /\ pageContainer = Some(2)
    /\ chatObserver = Some(2)

\* -------------------------------------------------------------------------
\* C22: the update alarm
\* -------------------------------------------------------------------------

\* A setupUpdateAlarm callback is queued: the browser has carried out the
\* clear or get, the create is still to come.
SetupCallbackPending == \E t \in Running : t.pc = "alarmCallback"

\* C22 as stated: once a setup has completed the alarm is never missing.  An
\* alarm is registered only by a completed setup (of this run of the worker
\* or of an earlier one), so this says a registered alarm stays registered.
C22_NeverZeroOnceSetUp == [][alarm => alarm']_vars

\* C22 as amended: the registry holds at most the one alarm of that name;
\* when the last queued setup callback has run the alarm is registered, and a
\* registered alarm goes missing only in the viewer, between the
\* chrome.alarms.clear of a later setup and the callback that creates it
\* again.
C22_OneAlarmBetweenSetups ==
    [][ /\ (SetupCallbackPending /\ ~SetupCallbackPending') => alarm'
        /\ (alarm /\ ~alarm') => (variant = "viewer" /\ SetupCallbackPending') ]_vars

\* C22 witness: a setup callback has created the alarm while the callback of
\* another setup, made by another event, is still queued.
C22_Witness ==
    /\ lastStep.op = "AlarmCallback"
    /\ alarm
    /\ SetupCallbackPending

\* -------------------------------------------------------------------------
\* C23..C26: parseCsvData
\* -------------------------------------------------------------------------

\* The four required columns, by their lower-case names.
ColumnNames == HeaderNames("viewer")

IsColumn(cell, name) == toLowerCase(trim(cell)) = name

\* A header is valid when it names the four required columns, in any
\* letter case.
ValidHeader(header) ==
    \A f \in DOMAIN ColumnNames :
        \E i \in 1..Len(header) : IsColumn(header[i], ColumnNames[f])

\* The first cell of the header that names the column.
ColumnOf(header, name) ==
    CHOOSE i \in 1..Len(header) :
        /\ IsColumn(header[i], name)
        /\ \A j \in 1..(i - 1) : ~IsColumn(header[j], name)

\* The cell of a row under a column of the header.
CellOf(file, row, f) == trim(row[ColumnOf(file.header, ColumnNames[f])])

WellFormedRow(file, row) == Len(row) = Len(file.header)

\* A row the map must have an entry for.
ValidRow(file, row) ==
    /\ WellFormedRow(file, row)
    /\ CellOf(file, row, "twitch_name") # << >>
    /\ CellOf(file, row, "uuid") # << >>

ValidRows(file) == { i \in 1..Len(file.rows) : ValidRow(file, file.rows[i]) }

ExpectedKeys(file) ==
    { toLowerCase(CellOf(file, file.rows[i], "twitch_name")) : i \in ValidRows(file) }

\* parseCsvData has returned a map for a file with a valid header.
ParsedToMap ==
    /\ parseCall.called
    /\ ValidHeader(csv.header)
    /\ ~IsNone(parseCall.value)

\* C23: for a CSV with a valid header, the keys of the map parseCsvData
\* returns are exactly the lower-cased trimmed usernames of the rows that
\* have the header's field count, a non-empty username and a non-empty
\* identifier.
C23_KeysAreValidUsernames ==
    ParsedToMap => Keys(Val(parseCall.value)) = ExpectedKeys(csv)

\* C23 witness: two valid rows whose usernames differ in letter case only
\* have been parsed to one entry.
C23_Witness ==
    /\ ParsedToMap
    /\ ValidRows(csv) = { 1, 2 }
    /\ CellOf(csv, csv.rows[1], "twitch_name") # CellOf(csv, csv.rows[2], "twitch_name")
    /\ Cardinality(Keys(Val(parseCall.value))) = 1

\* The header names the four columns as both variants look them up.
ExactHeader(header) ==
    \A f \in DOMAIN ColumnNames :
        \E i \in 1..Len(header) : trim(header[i]) = HeaderNames("root")[f]

\* An empty line.
BlankRow == << << >> >>

MalformedRows(file) ==
    { i \in 1..Len(file.rows) : ~WellFormedRow(file, file.rows[i]) }

\* C24: a row whose field count is not the header's does not end the
\* parsing and leaves nothing in the map: a map is returned (unless the file
\* is the header and empty lines only), it has the entry of every valid row
\* before and after that row, and every entry of it comes from a valid row.
C24_MalformedRowSkipped ==
    (parseCall.called /\ ExactHeader(csv.header) /\ MalformedRows(csv) # {}) =>
        /\ (\E i \in 1..Len(csv.rows) : csv.rows[i] # BlankRow) =>
               ~IsNone(parseCall.value)
        /\ ~IsNone(parseCall.value) =>
               LET m == Val(parseCall.value)
                   key(i) == toLowerCase(CellOf(csv, csv.rows[i], "twitch_name"))
               IN /\ \A i \in ValidRows(csv) : key(i) \in Keys(m)
                  /\ \A k \in Keys(m) :
                        \E i \in ValidRows(csv) :
                            /\ key(i) = k
                            /\ m[k].uuid = CellOf(csv, csv.rows[i], "uuid")

\* C24 witness: a row of three cells came first, a valid row after it, and
\* the map returned holds the valid row.
C24_Witness ==
    /\ parseCall.called
    /\ ExactHeader(csv.header)
    /\ MalformedRows(csv) = { 1 }
    /\ csv.rows[1] # BlankRow
    /\ ValidRows(csv) = { 2 }
    /\ ~IsNone(parseCall.value)
    /\ Cardinality(Keys(Val(parseCall.value))) = 1

\* An integer literal: an optional sign and one or more decimal digits.
IntegerLiteral(s) ==
    LET body == IF Len(s) > 0 /\ s[1] \in { "-", "+" } THEN Tail(s) ELSE s
    IN Len(body) > 0 /\ \A i \in 1..Len(body) : IsDigit(body[i])

\* The valid row the entry under key k comes from: the last one of that
\* username.
RowOfKey(file, k) ==
    CHOOSE i \in ValidRows(file) :
        /\ toLowerCase(CellOf(file, file.rows[i], "twitch_name")) = k
        /\ \A j \in ValidRows(file) :
              toLowerCase(CellOf(file, file.rows[j], "twitch_name")) = k => j <= i

\* C25: every valid row is admitted; its eloRate is null when its rating
\* cell is empty or is not an integer literal, its nickname is null when its
\* nickname cell is empty.
C25_NonNumericRatingIsNull ==
    ParsedToMap =>
        LET m == Val(parseCall.value)
        IN /\ ExpectedKeys(csv) \subseteq Keys(m)
           /\ \A k \in Keys(m) \cap ExpectedKeys(csv) :
                 LET row == csv.rows[RowOfKey(csv, k)]
                 IN /\ ~IntegerLiteral(CellOf(csv, row, "eloRate")) =>
                          IsNone(m[k].eloRate)
                    /\ CellOf(csv, row, "nickname") = << >> =>
                          IsNone(m[k].nickname)

\* The file with its header cells replaced by the names as the workflow
\* writes them (uuid, twitch_name, nickname, eloRate), other cells kept.
WithCanonicalCase(file) ==
    [ file EXCEPT !.header =
        [ i \in 1..Len(file.header) |->
            IF \E f \in DOMAIN ColumnNames : IsColumn(file.header[i], ColumnNames[f])
            THEN HeaderNames("root")[CHOOSE f \in DOMAIN ColumnNames :
                                        IsColumn(file.header[i], ColumnNames[f])]
            ELSE file.header[i] ] ]

\* C26: in both variants a header that names the four columns in another
\* letter case is accepted, and the file parses to the map the file with the
\* canonically cased header parses to.
C26_HeaderCaseInsensitive ==
    (parseCall.called /\ ValidHeader(csv.header)) =>
        parseCall.value = parseCsvData(variant, TextOf(WithCanonicalCase(csv)))

\* C26 for the viewer variant alone.
C26_ViewerHeaderCaseInsensitive ==
    (variant = "viewer" /\ parseCall.called /\ ValidHeader(csv.header)) =>
        parseCall.value = parseCsvData(variant, TextOf(WithCanonicalCase(csv)))

\* C26 witness: the viewer has parsed a file whose header is written in
\* another letter case to a map with an entry.
C26_Witness ==
    /\ variant = "viewer"
    /\ ParsedToMap
    /\ ~ExactHeader(csv.header)
    /\ Keys(Val(parseCall.value)) # {}

\* -------------------------------------------------------------------------
\* C27, C28: getRankInfo
\* -------------------------------------------------------------------------

\* The table of tiers: lowest rating, tier, division.
Breakpoints ==
    { << 2000, "Netherite", None >>,
      << 1800, "Diamond", Some(3) >>, << 1650, "Diamond", Some(2) >>,
      << 1500, "Diamond", Some(1) >>,
      << 1400, "Emerald", Some(3) >>, << 1300, "Emerald", Some(2) >>,
      << 1200, "Emerald", Some(1) >>,
      << 1100, "Gold", Some(3) >>, << 1000, "Gold", Some(2) >>,
      << 900, "Gold", Some(1) >>,
      << 800, "Iron", Some(3) >>, << 700, "Iron", Some(2) >>,
      << 600, "Iron", Some(1) >>,
      << 500, "Coal", Some(3) >>, << 400, "Coal", Some(2) >>,
      << 0, "Coal", Some(1) >> }

\* The highest breakpoint not above n, for n >= 0.
BreakpointOf(n) ==
    CHOOSE b \in Breakpoints :
        /\ b[1] <= n
        /\ \A c \in Breakpoints : c[1] <= n => c[1] <= b[1]

\* C27: for an integer rating of 0 or more getRankInfo returns the tier and
\* division of the highest breakpoint not above it; the division is null
\* for Netherite only and otherwise 1, 2 or 3.
C27_RankOfHighestBreakpoint ==
    (rankCall.called /\ eloArg.kind = "number" /\ eloArg.value >= 0) =>
        LET b == BreakpointOf(eloArg.value)
            r == rankCall.value
        IN /\ r.rank = b[2]
           /\ r.division = b[3]
           /\ IsNone(r.division) <=> r.rank = "Netherite"
           /\ ~IsNone(r.division) => Val(r.division) \in 1..3

\* C27 witness: getRankInfo(2000) has returned Netherite.
C27_Witness ==
    /\ rankCall.called
    /\ eloArg = JsNumber(2000)
    /\ rankCall.value.rank = "Netherite"

\* C28: for null, for a value that is not a number and for a number below
\* 0 getRankInfo returns the Unrated tier with division null.
C28_UnratedBelowLowestBreakpoint ==
    (rankCall.called /\ (eloArg.kind # "number" \/ eloArg.value < 0)) =>
        /\ rankCall.value.rank = "Unrated"
        /\ IsNone(rankCall.value.division)

\* C28 without the numbers below 0 and NaN: null, undefined and strings.
C28_UnratedWhenNotANumber ==
    (rankCall.called /\ eloArg.kind \in { "null", "undefined", "string" }) =>
        rankCall.value = defaultRank

\* -------------------------------------------------------------------------
\* C29: from the CSV file to the badge
\* -------------------------------------------------------------------------

\* The file of the one row abc-123,StreamerOne,Streamer_One,1550.
StreamerFile == CHOOSE f \in StreamerFiles : f.rows = << StreamerRow >>

\* The entry that row must give.
StreamerRecord ==
    [ uuid |-> << "a","b","c","-","1","2","3" >>,
      nickname |-> Some(<< "S","t","r","e","a","m","e","r","_","O","n","e" >>),
      eloRate |-> Some(1550) ]

\* C29: for the file of the one row abc-123,StreamerOne,Streamer_One,1550
\* the map committed by the refresh is the single entry streamerone ->
\* { abc-123, Streamer_One, 1550 }; getElo for STREAMERONE is answered with
\* that rating, nickname and identifier and the status storage_hit; and the
\* badge the SPA and Hide-N/A scripts render for that answer has the text
\* 1550 and the rank Diamond, division I.
C29_StreamerEndToEnd ==
    csv = StreamerFile =>
        /\ isDataLoaded =>
              /\ Keys(twitchUserDataMap) = { << "s","t","r","e","a","m","e","r","o","n","e" >> }
              /\ twitchUserDataMap[<< "s","t","r","e","a","m","e","r","o","n","e" >>] = StreamerRecord
        /\ (eloCall.called /\ eloCall.value.username = Some(<< "S","T","R","E","A","M","E","R","O","N","E" >>)) =>
              eloCall.value.response =
                  Some(EloResponse(Some(1550), Some(<< "S","t","r","e","a","m","e","r","_","O","n","e" >>),
                                   Some(<< "a","b","c","-","1","2","3" >>), "storage_hit"))
        /\ (eloCall.called /\ eloCall.value.username = Some(<< "S","T","R","E","A","M","E","R","O","N","E" >>)
               /\ pageStep.op = "callback"
               /\ contentScript \in { "spa", "hideNA" }) =>
              /\ elements[1].processed
              /\ elements[1].badges = 1
              /\ ~IsNone(badge)
              /\ Val(badge).textContent = << "1","5","5","0" >>
              /\ Val(badge).rank = "Diamond"
              /\ Val(badge).division = << "I" >>

\* C29 witness: the SPA script has rendered the badge for the answer to
\* getElo for STREAMERONE after the refresh of that file.
C29_Witness ==
    /\ csv = StreamerFile
    /\ contentScript = "spa"
    /\ isDataLoaded
    /\ eloCall.called
    /\ eloCall.value.username = Some(<< "S","T","R","E","A","M","E","R","O","N","E" >>)
    /\ pageStep.op = "callback"
    /\ ~IsNone(badge)

\* -------------------------------------------------------------------------
\* C30: from Unseen to Annotated
\* -------------------------------------------------------------------------

\* A getElo message sent for element e has not been called back.
InFlight(e) == \E l \in BagToSet(lookups) : l.el = e

\* The step just taken was the callback of a message sent for element e.
Answered(e) == pageStep.op = "callback" /\ pageStep.el = e

\* This step is the callback of a message sent for e, with a hit of
\* non-null rating as the answer.
HitArrives(e) ==
    /\ InFlight(e)
    /\ lookups' # lookups
    /\ pageStep'.op = "callback"
    /\ pageStep'.el = e
    /\ pageStep'.outcome = "storage_hit"

\* C30 as stated: an element with a message in flight is called back, and
\* when the answer is a hit with a rating the element, which was marked
\* processing, then carries the processed marker and exactly one badge.
C30_HitAnnotates ==
    /\ \A e \in SpaElements : InFlight(e) ~> Answered(e)
    /\ [][ \A e \in SpaElements :
              HitArrives(e) =>
                  /\ elements[e].processing
                  /\ elements'[e].processed
                  /\ elements'[e].badges = 1 ]_vars

\* C30 as amended: the same, when the answer arrives while the runtime
\* context is valid and the element still has a parent node.
C30_HitAnnotatesAttached ==
    /\ \A e \in SpaElements : InFlight(e) ~> Answered(e)
    /\ [][ \A e \in SpaElements :
              (HitArrives(e) /\ contextValid /\ elements[e].attached) =>
                  /\ elements[e].processing
                  /\ elements'[e].processed
                  /\ elements'[e].badges = 1 ]_vars

\* C30 witness: the callback of the message sent for element 1 has run with
\* a hit and the element carries the processed marker and one badge.
C30_Witness ==
    /\ contentScript = "spa"
    /\ Answered(1)
    /\ pageStep.outcome = "storage_hit"
    /\ elements[1].processed
    /\ elements[1].badges = 1

\* -------------------------------------------------------------------------
\* C31: the in-flight flag
\* -------------------------------------------------------------------------

\* C31: a refresh that has set isFetching sets it back to false, and
\* isFetching is false in the state in which fetchAndStoreCsvData returns,
\* committed or failed, so that the next call passes the guard.
C31_FlagReleased ==
    /\ isFetching ~> ~isFetching
    /\ [][ (Refreshing # {} /\ Refreshing' = {}) =>
              (~isFetching' /\ fetchAndStoreCsvDataStarts(isFetching')) ]_vars

\* C31 witness: a refresh has failed after its fallback storage load and
\* the flag is down.
C31_Witness ==
    /\ lastStep.op = "FallbackLoadDone"
    /\ lastStep.refresh = "failed"
    /\ ~isFetching

\* C32: whenever isDataLoaded is true the in-memory map has at least one
\* entry; the flag is never up over the initial empty map.
C32_LoadedMapNonEmpty ==
    isDataLoaded => Keys(twitchUserDataMap) # {}

\* C32 witness: a refresh has fetched a file without data rows while the cache
\* was loaded, and the flag is still up over a map with entries.
C32_Witness ==
    /\ lastStep.op = "TextDone"
    /\ lastStep.note = "parse_empty"
    /\ isDataLoaded
    /\ Keys(twitchUserDataMap) # {}

\* The suspended invocations that await chrome.storage.local.get outside a
\* refresh.
StorageLoading == { t \in Running : t.pc = "load" }

\* C33: when the cache is loaded and neither a refresh nor a storage load is
\* in progress, the in-memory map is the persisted snapshot.
C33_MemoryEqualsSnapshot ==
    (isDataLoaded /\ Refreshing = {} /\ StorageLoading = {}) =>
        stored = Some(twitchUserDataMap)

\* C33 witness: a refresh has committed a map other than the one that was
\* loaded from storage before it, and nothing is in progress.
C33_Witness ==
    /\ lastStep.op = "StorageSetDone"
    /\ isDataLoaded
    /\ Refreshing = {}
    /\ StorageLoading = {}
    /\ twitchUserDataMap = Val(ParsedTexts[variant][CsvTwo])
    /\ stored = Some(twitchUserDataMap)

\* A getElo request arrives while a refresh is in flight and the cache is
\* loaded.
GetEloDuringRefresh ==
    /\ isDataLoaded
    /\ Refreshing # {}
    /\ lastStep'.op = "GetElo"
    /\ lastStep' # lastStep

\* The maps that are whole: the initial empty map and the result of parsing
\* one whole file.
CompleteMaps ==
    {EmptyMap} \cup { Val(ParsedTexts[variant][c]) :
                        c \in { x \in FetchTexts :
                                   ~IsNone(ParsedTexts[variant][x]) } }

\* C34 as claimed: a getElo request that arrives during a refresh with the
\* cache loaded is answered in the same step from the map as it was when the
\* refresh started.
C34_AnsweredFromMapBeforeRefresh ==
    [][ GetEloDuringRefresh =>
          /\ tasks' = tasks
          /\ lastStep'.eloResponse =
                 handleEloRequest(variant, lastStep'.username, TRUE,
                                  Val(atRefreshStart).map) ]_vars

\* C34 amended: the request is answered in the same step, without a new
\* suspended invocation, from the in-memory map as it is when the request
\* arrives; that map is whole, and while a refresh is in flight it is
\* replaced only by the refresh's commit, by the refresh's fallback load, or
\* by a storage load that completes meanwhile.
C34_AnsweredFromCurrentMap ==
    /\ [][ GetEloDuringRefresh =>
             /\ tasks' = tasks
             /\ twitchUserDataMap' = twitchUserDataMap
             /\ lastStep'.eloResponse =
                    handleEloRequest(variant, lastStep'.username, TRUE,
                                     twitchUserDataMap) ]_vars
    /\ [][ (Refreshing # {} /\ twitchUserDataMap' # twitchUserDataMap) =>
             lastStep'.op \in { "StorageSetDone", "FallbackLoadDone",
                                "StorageGetDone" } ]_vars
    /\ [](twitchUserDataMap \in CompleteMaps)

\* C34 witness: a request was answered during a refresh from a map that a
\* storage load assigned after the refresh started.
C34_Witness ==
    /\ lastStep.op = "GetElo"
    /\ lastStep.note = "answered"
    /\ isDataLoaded
    /\ Refreshing # {}
    /\ twitchUserDataMap # Val(atRefreshStart).map

\* C35: in the SPA script at most one re-initialisation timer is pending,
\* and it is the one observerReconnectTimer refers to; a step that sets the
\* timer while one is pending leaves one pending, not two.
C35_OneTimerPending ==
    /\ [](/\ pendingTimers \in { 0, 1 }
          /\ observerReconnectTimer <=> pendingTimers = 1)
    /\ [][ (pendingTimers = 1 /\ observerReconnectTimer'
              /\ pageStep'.op \in { "reconnect", "page", "initializeObserver" }) =>
             pendingTimers' = 1 ]_vars

\* C35 witness: processNewChatMessages found its container disconnected and
\* set the timer, and one timer is pending.
C35_Witness ==
    /\ contentScript = "spa"
    /\ pageStep.op = "reconnect"
    /\ ~IsNone(pageContainer)
    /\ observerReconnectTimer
    /\ pendingTimers = 1

\* C36: in the SPA script at most one chat observer is observing, and it is
\* the one chatObserver refers to, so that a run of processNewChatMessages
\* is the only one for its mutation records; no element has more than one
\* lookup in flight.
C36_OneObserverActive ==
    /\ activeObservers \in { 0, 1 }
    /\ activeObservers = 1 <=> ~IsNone(chatObserver)
    /\ \A e \in DOMAIN elements : LookupsFor(lookups, e) <= 1

\* C36 witness: after the observer was put on a container that came into
\* the document later, an element added there has been scanned and its
\* lookup sent.
C36_Witness ==
    /\ contentScript = "spa"
    /\ chatObserver = Some(2)
    /\ activeObservers = 1
    /\ pageStep.op = "processNewChatMessages"
    /\ \E e \in DOMAIN elements : LookupsFor(lookups, e) = 1

\* C37: in the SPA script an element that carries the processing class
\* without the processed class eventually carries the processed class or has
\* lost the processing class, whatever its callback receives, given that the
\* callback of every message sent is invoked.
C37_ProcessingEnds ==
    \A e \in SpaElements :
        (elements[e].processing /\ ~elements[e].processed)
            ~> (elements[e].processed \/ ~elements[e].processing)

\* C37 witness: a callback with chrome.runtime.lastError set has run for an
\* element and taken the processing class off it.
C37_Witness ==
    /\ contentScript = "spa"
    /\ pageStep.op = "callback"
    /\ pageStep.outcome = "lastError"
    /\ ~elements[pageStep.el].processing
    /\ ~elements[pageStep.el].processed

\* The elements after the callbacks of two lookups have run, the first
\* lookup's first.
AfterBoth(l1, o1, l2, o2) ==
    Callback(contentScript, contextValid,
             Callback(contentScript, contextValid, elements, l1, o1).els,
             l2, o2).els

\* C38: in the SPA script, for lookups in flight and any responses to them,
\* the elements are left the same whichever callback runs first, and a
\* callback changes no element but the one its message was sent for.
C38_OrderIndependent ==
    contentScript = "spa" =>
        \A l1 \in BagToSet(lookups) :
            \A o1 \in CallbackOutcomes(contentScript, l1.username) :
                /\ \A e \in DOMAIN elements :
                      e # l1.el =>
                        Callback(contentScript, contextValid, elements,
                                 l1, o1).els[e] = elements[e]
                /\ \A l2 \in BagToSet(lookups) \ { l1 } :
                      \A o2 \in CallbackOutcomes(contentScript, l2.username) :
                          AfterBoth(l1, o1, l2, o2) = AfterBoth(l2, o2, l1, o1)

\* C38 witness: two elements with the same username had lookups in flight,
\* and the response for the second has been applied while the first is
\* still waiting for its own.
C38_Witness ==
    /\ contentScript = "spa"
    /\ pageStep.op = "callback"
    /\ pageStep.el = 2
    /\ pageStep.outcome = "storage_hit"
    /\ elements[2].processed
    /\ LookupsFor(lookups, 1) = 1
    /\ elements[1].processing
    /\ ~elements[1].processed

\* C39: whatever getRankInfo is handed (null, undefined, NaN, a string, a
\* number from -MaxBelowZero to MaxElo), the copy of the script that was
\* called returns the rank, division, background colour and text colour
\* that each of the other two copies returns for the same argument.
C39_CopiesAgree ==
    rankCall.called =>
        /\ getRankInfoSpa(eloArg) = rankCall.value
        /\ getRankInfoHideNA(eloArg) = rankCall.value
        /\ getRankInfoViewer(eloArg) = rankCall.value

\* C39 witness: the copy of src/unnamed/part_002 has returned for a number
\* below 0.
C39_Witness ==
    /\ contentScript = "hideNA"
    /\ rankCall.called
    /\ eloArg = JsNumber(0 - 1)
    /\ rankCall.value = RankInfo("Coal", Some(1), "#555555", "#FFFFFF")

\* C40: with the script of src/unnamed/part_001 or src/unnamed/part_002 an
\* element carries the processed class if and only if exactly one badge has
\* been inserted after it, also when the element had lost its parent node
\* before the response arrived.
C40_ProcessedIffOneBadge ==
    contentScript \in { "hideNA", "spa" } =>
        \A e \in DOMAIN elements :
            elements[e].processed <=> elements[e].badges = 1

====
